---- MODULE Spec2Model ----
(***************************************************************************)
(* A model of the Ripple_DB storage engine core: the internal-key          *)
(* comparator and the MemTable (src/src/Format.ts), the VersionSet with    *)
(* its MANIFEST / CURRENT protocol (src/unnamed/part_000), the Compaction  *)
(* object (src/src/Compaction.ts) and the file names (src/src/Filename.ts).*)
(*                                                                         *)
(* Byte strings are sequences of numbers 0..255.  Sequence numbers stay    *)
(* far below 2^31, the width of TLC's integers.                            *)
(***************************************************************************)
EXTENDS Integers, Sequences, FiniteSets, TLC

\* ------------------------------------------------------------------ bounds

\* MemTable specification: entries added, and the largest sequence number.
MaxMemEntries == 3
MaxMemSeq == 3

\* VersionSet specification: the largest file number handed out, the
\* logAndApply calls begun, the largest last sequence, the deepest level a
\* file is moved to, and the times the directory is opened again.
MaxFileNumber == 4
MaxCalls == 2
MaxLastSequence == 1
MaxMoveLevel == 2
MaxReopens == 2
MaxManifestRecords == 2

\* Database specification: the size of one entry and the maxFileSize option,
\* both in MiB, the largest sequence number a snapshot pins, the largest
\* sequence number written, the largest file number, the compactions run
\* and the deepest level compactRange is asked for.
EntrySize == 34
MaxFileSize == 68
MaxSnapshotSeq == 1
MaxDbSeq == 3
MaxDbFileNumber == 7
MaxCompactions == 3
MaxCompactLevel == 1

\* The calls of releaseInputs on one compaction.
MaxReleases == 2
MaxFailures == 1

\* Lock specification: how far the clock runs and how often a database is
\* opened.
MaxClock == 3
MaxOpens == 3

\* ------------------------------------------------------- program constants

kTypeDeletion == 0
kTypeValue == 1
kValueTypeForSeek == kTypeValue

kNumLevels == 7
kL0CompactionTrigger == 4

\* Compaction.maxGrandParentOverlapBytes and the limit of an expanded
\* compaction, both multiples of the maxFileSize option.
MaxGrandParentOverlapBytes == 10 * MaxFileSize
ExpandedCompactionByteSizeLimit == 25 * MaxFileSize

VARIABLES
  \* MemTable (src/src/Format.ts)
  memList,      \* the skiplist: memtable keys in keyComparator order
  memSize,      \* MemTable._size
  memAdded,     \* history: the arguments of every add so far
  memGot,       \* the last get: its lookup key and what it returned
  memImmutable, \* MemTable._immutable
  memThrown,    \* whether the last add threw "Incorrect length"
  \* VersionSet (src/unnamed/part_000)
  versions,            \* the Version objects: id -> files, refs, prev, next; 0 is _dummyVersions
  current,             \* _current, a version id
  logNumber,
  prevLogNumber,
  lastSequence,
  manifestFileNumber,
  nextFileNumber,
  manifestWriter,      \* whether this.manifestWriter is set
  compactPointers,
  \* the database directory
  manifests,           \* MANIFEST-N files: N -> the records appended so far
  currentFile,         \* CURRENT: whether it exists, and its content
  \* the logAndApply call in flight
  call,
  \* history
  pending,             \* numbers handed out and not yet used by an edit
  handedOut,           \* every number getNextFileNumber returned, in any life
  reissued,            \* getNextFileNumber returned a number <= one returned before
  pre,                 \* what the call in flight, or the last one, started from
  afterCall,           \* what the last successful call left
  lastOutcome,         \* how the last logAndApply or recover ended
  allSucceeded,        \* no call failed or was cut short so far
  currentRecord,       \* the record of the edit that made the current version
  callsBegun,
  reopens,
  \* the database: memtable, tables, snapshots, compaction (spec section 4.11-4.13)
  dbMem,               \* the entries of the active memtable, in internal-key order
  tables,              \* table files: number -> entries in internal-key order
  snapshots,           \* the pinned sequence numbers
  compaction,          \* the Compaction object in flight
  dbDone,              \* history: flushes and compactions done, what the last one did
  \* the LOCK file (spec section 5)
  lockClock,
  locks,               \* path -> held, since when, by which database
  opened,              \* the databases that are open
  copied,              \* the directory has been copied
  lockOpens,
  lastOpen,            \* the last attempt to open a database
  \* a function applied on its own
  fnInput,             \* its arguments
  fnOutput             \* what it returned

memVars == <<memList, memSize, memAdded, memGot, memImmutable, memThrown>>

vsVars == <<versions, current, logNumber, prevLogNumber, lastSequence,
            manifestFileNumber, nextFileNumber, manifestWriter, compactPointers>>

diskVars == <<manifests, currentFile>>

histVars == <<pending, handedOut, reissued, pre, afterCall, lastOutcome,
              allSucceeded, currentRecord, callsBegun, reopens>>

dbVars == <<dbMem, tables, snapshots, compaction, dbDone>>

lockVars == <<lockClock, locks, opened, copied, lockOpens, lastOpen>>

fnVars == <<fnInput, fnOutput>>

vars == <<memList, memSize, memAdded, memGot, memImmutable, memThrown,
          versions, current, logNumber, prevLogNumber, lastSequence,
          manifestFileNumber, nextFileNumber, manifestWriter, compactPointers,
          manifests, currentFile, call,
          pending, handedOut, reissued, pre, afterCall, lastOutcome,
          allSucceeded, currentRecord, callsBegun, reopens,
          dbMem, tables, snapshots, compaction, dbDone,
          lockClock, locks, opened, copied, lockOpens, lastOpen,
          fnInput, fnOutput>>

\* ------------------------------------------------------------ byte helpers

Max2(a, b) == IF a >= b THEN a ELSE b
Min2(a, b) == IF a <= b THEN a ELSE b

\* varint: 7-bit groups, high bit is the continuation flag.
RECURSIVE Varint(_)
Varint(n) == IF n < 128 THEN <<n>> ELSE <<(n % 128) + 128>> \o Varint(n \div 128)

\* The value and the byte count of the varint at the head of buf.
RECURSIVE VarintDecodeFrom(_, _)
VarintDecodeFrom(buf, i) ==
  IF buf[i] < 128 THEN [value |-> buf[i], bytes |-> 1]
  ELSE LET rest == VarintDecodeFrom(buf, i + 1)
       IN  [value |-> (buf[i] - 128) + 128 * rest.value, bytes |-> rest.bytes + 1]

VarintDecode(buf) == VarintDecodeFrom(buf, 1)

\* encodeFixed64: 8 bytes, little-endian (numbers below 2^31 here).
EncodeFixed64(n) == [i \in 1..8 |-> IF i <= 4 THEN (n \div (256 ^ (i - 1))) % 256 ELSE 0]

\* Buffer.fillInt(value, 7, 8): the last of the 8 bytes is overwritten.
FillInt7(buf, value) == [buf EXCEPT ![8] = value]

\* The order of two decodeFixed64 values whose 8th byte is zero, read off
\* their first 7 bytes: the most significant differing byte decides.
RECURSIVE CompareFixed56From(_, _, _)
CompareFixed56From(b1, b2, i) ==
  IF i = 0 THEN 0
  ELSE IF b1[i] > b2[i] THEN 1
  ELSE IF b1[i] < b2[i] THEN -1
  ELSE CompareFixed56From(b1, b2, i - 1)

\* The user comparator: byte-wise lexicographic order.
RECURSIVE BytewiseCompareFrom(_, _, _)
BytewiseCompareFrom(a, b, i) ==
  IF i > Len(a) /\ i > Len(b) THEN 0
  ELSE IF i > Len(a) THEN -1
  ELSE IF i > Len(b) THEN 1
  ELSE IF a[i] < b[i] THEN -1
  ELSE IF a[i] > b[i] THEN 1
  ELSE BytewiseCompareFrom(a, b, i + 1)

BytewiseCompare(a, b) == BytewiseCompareFrom(a, b, 1)

\* ------------------------------------------------------------ internal keys

\* extractUserKey: everything but the 8-byte tail.
ExtractUserKey(ikey) == SubSeq(ikey, 1, Len(ikey) - 8)

\* The 8-byte tail of an internal key.
KeyTail(ikey) == SubSeq(ikey, Len(ikey) - 7, Len(ikey))

\* InternalKey.type: the last byte.
InternalKeyType(ikey) == ikey[Len(ikey)]

\* appendInternalKey / MemTable.add: user key,
\* then encodeFixed64(sequence) with the type written over its 8th byte.
AppendInternalKey(userKey, sn, valueType) ==
  userKey \o FillInt7(EncodeFixed64(sn), valueType)

\* A plausible slip: sequence numbers order ascending.
InternalKeyCompareAscending(key1, key2) ==
  LET r == BytewiseCompare(ExtractUserKey(key1), ExtractUserKey(key2))
      c == CompareFixed56From(KeyTail(key1), KeyTail(key2), 7)
  IN  IF r # 0 THEN r ELSE c

\* InternalKeyComparator.compare: ascending user key, then descending
\* sequence number (the 7 low bytes of the tail); the type is not read.
InternalKeyCompare(key1, key2) ==
  LET r == BytewiseCompare(ExtractUserKey(key1), ExtractUserKey(key2))
      c == CompareFixed56From(KeyTail(key1), KeyTail(key2), 7)
  IN  IF r # 0 THEN r
      ELSE IF c = 0 THEN 0
      ELSE IF c > 0 THEN -1 ELSE 1

\* ---------------------------------------------------------------- MemTable

\* getLengthPrefixedSlice: the internal key at the head of a memtable key.
GetLengthPrefixedSlice(buf) ==
  LET d == VarintDecode(buf) IN SubSeq(buf, d.bytes + 1, d.bytes + d.value)

\* MemTable.keyComparator.
KeyComparator(a, b) ==
  InternalKeyCompare(GetLengthPrefixedSlice(a), GetLengthPrefixedSlice(b))

\* MemTable.getEntryFromMemTableKey.
GetEntryFromMemTableKey(buf) ==
  LET k == VarintDecode(buf)
      rest == SubSeq(buf, k.bytes + k.value + 1, Len(buf))
      v == VarintDecode(rest)
  IN  [key |-> SubSeq(buf, k.bytes + 1, k.bytes + k.value),
       value |-> SubSeq(rest, v.bytes + 1, v.bytes + v.value)]

\* The buffer MemTable.add builds, and the length it expects it to have.
MemTableEntry(sequence, valueType, key, value) ==
  Varint(Len(key) + 8) \o AppendInternalKey(key, sequence, valueType)
    \o Varint(Len(value)) \o value

\* A slip: both lengths counted as one varint byte.
MemTableEncodedLengthOneByte(key, value) == (Len(key) + 8) + Len(value) + 2

\* encodedLength of add: the internal key, the value and the bytes of the two
\* varints as varint.encode reports them.
MemTableEncodedLength(key, value) ==
  (Len(key) + 8) + Len(value) + Len(Varint(Len(value))) + Len(Varint(Len(key) + 8))

\* Skiplist.put: the key goes before the first key that is not smaller.
SkiplistPut(list, buf) ==
  LET before == {i \in 1..Len(list) : KeyComparator(list[i], buf) < 0}
      n == Cardinality(before)
  IN  SubSeq(list, 1, n) \o <<buf>> \o SubSeq(list, n + 1, Len(list))

\* Skiplist.seek: the index of the first key >= target, 0 when there is none.
SkiplistSeek(list, target) ==
  LET ge == {i \in 1..Len(list) : KeyComparator(list[i], target) >= 0}
  IN  IF ge = {} THEN 0 ELSE CHOOSE i \in ge : \A j \in ge : i <= j

\* LookupKey.memKey.
LookupMemKey(userKey, sequence) ==
  Varint(Len(userKey) + 8) \o userKey
    \o FillInt7(EncodeFixed64(sequence), kValueTypeForSeek)

NotFound == [found |-> FALSE, type |-> kTypeDeletion, value |-> <<>>]

\* MemTable.get.
MemTableGet(list, userKey, sequence) ==
  LET at == SkiplistSeek(list, LookupMemKey(userKey, sequence))
  IN  IF at = 0 THEN NotFound
      ELSE LET entry == GetEntryFromMemTableKey(list[at])
           IN  IF BytewiseCompare(ExtractUserKey(entry.key), userKey) = 0
               THEN [found |-> TRUE, type |-> InternalKeyType(entry.key),
                     value |-> entry.value]
               ELSE NotFound

\* The inputs of the MemTable specification.
MemKeys == {<<97>>, <<97, 98>>, <<98>>}
\* The values: none, and one long enough for a length of two varint bytes.
LongValue == [i \in 1..128 |-> 120]
MemValues == {<<>>, LongValue}
MemSeqs == 1..MaxMemSeq

NoGet == [userKey |-> <<>>, sequence |-> 0, result |-> NotFound]

\* MemTable.add(sequence, valueType, key, value); without a value the value
\* is empty.  The entry is put and counted when the length computed ahead is
\* the length of the buffer, and "Incorrect length" is thrown otherwise.  The
\* immutable flag is not looked at.  No internal key is inserted twice, and a
\* deletion carries no value.
MemAdd(sequence, valueType, key, value) ==
  /\ Cardinality(memAdded) < MaxMemEntries
  /\ \A e \in memAdded : ~(e.key = key /\ e.sequence = sequence)
  /\ valueType = kTypeDeletion => value = <<>>
  /\ LET buf == MemTableEntry(sequence, valueType, key, value)
     IN  IF MemTableEncodedLength(key, value) = Len(buf)
           THEN /\ memList' = SkiplistPut(memList, buf)
                /\ memSize' = memSize + Len(buf)
                /\ memThrown' = FALSE
           ELSE /\ memThrown' = TRUE
                /\ UNCHANGED <<memList, memSize>>
  /\ memAdded' = memAdded \cup
       {[sequence |-> sequence, valueType |-> valueType, key |-> key, value |-> value]}
  /\ memGot' = NoGet
  /\ UNCHANGED memImmutable
  /\ UNCHANGED <<vsVars, diskVars, call, histVars, dbVars, lockVars, fnVars>>

\* MemTable.get(new LookupKey(userKey, sequence)).
MemGet(userKey, sequence) ==
  /\ memGot' = [userKey |-> userKey, sequence |-> sequence,
                result |-> MemTableGet(memList, userKey, sequence)]
  /\ UNCHANGED <<memList, memSize, memAdded, memImmutable, memThrown>>
  /\ UNCHANGED <<vsVars, diskVars, call, histVars, dbVars, lockVars, fnVars>>

\* memtable.immutable = next: the flag is set by true and left by false.
MemSetImmutable(next) ==
  /\ memImmutable' = IF next THEN TRUE ELSE memImmutable
  /\ UNCHANGED <<memList, memSize, memAdded, memGot, memThrown>>
  /\ UNCHANGED <<vsVars, diskVars, call, histVars, dbVars, lockVars, fnVars>>

\* ------------------------------------------------- file metadata and edits

Levels == 0..(kNumLevels - 1)

\* An empty Slice: a compaction pointer that is not set.
NoKey == <<>>

FileMetaData(number, fileSize, smallest, largest) ==
  [number |-> number, fileSize |-> fileSize, smallest |-> smallest, largest |-> largest]

NoFile == FileMetaData(0, 0, NoKey, NoKey)

EmptyFiles == [l \in Levels |-> <<>>]

\* The elements of a sequence.
Range(seq) == {seq[i] : i \in 1..Len(seq)}

\* new VersionEdit().
EmptyEdit ==
  [hasComparator |-> FALSE,
   hasLogNumber |-> FALSE, logNumber |-> 0,
   hasPrevLogNumber |-> FALSE, prevLogNumber |-> 0,
   hasNextFileNumber |-> FALSE, nextFileNumber |-> 0,
   hasLastSequence |-> FALSE, lastSequence |-> 0,
   compactPointers |-> <<>>,     \* <<[level, internalKey]>>
   deletedFiles |-> <<>>,        \* <<[level, number]>>
   newFiles |-> <<>>]            \* <<[level, file]>>

\* VersionEdit.addFile and VersionEdit.deleteFile.
EditAddFile(edit, level, f) ==
  [edit EXCEPT !.newFiles = Append(@, [level |-> level, file |-> f])]

EditDeleteFile(edit, level, number) ==
  [edit EXCEPT !.deletedFiles = Append(@, [level |-> level, number |-> number])]

\* One tagged field of a serialized VersionEdit.
Field(tag, level, number, key, file) ==
  [tag |-> tag, level |-> level, number |-> number, key |-> key, file |-> file]

\* VersionEditRecord.add: the fields that are set, each under its tag
\* (1 comparator, 2 log number, 9 previous log number, 3 next file number,
\* 4 last sequence, 5 compaction pointer, 6 deleted file, 7 new file).
VersionEditEncode(edit) ==
  (IF edit.hasComparator THEN <<Field(1, 0, 0, NoKey, NoFile)>> ELSE <<>>)
  \o (IF edit.hasLogNumber THEN <<Field(2, 0, edit.logNumber, NoKey, NoFile)>> ELSE <<>>)
  \o (IF edit.hasPrevLogNumber THEN <<Field(9, 0, edit.prevLogNumber, NoKey, NoFile)>> ELSE <<>>)
  \o (IF edit.hasNextFileNumber THEN <<Field(3, 0, edit.nextFileNumber, NoKey, NoFile)>> ELSE <<>>)
  \o (IF edit.hasLastSequence THEN <<Field(4, 0, edit.lastSequence, NoKey, NoFile)>> ELSE <<>>)
  \o [i \in 1..Len(edit.compactPointers) |->
        Field(5, edit.compactPointers[i].level, 0, edit.compactPointers[i].internalKey, NoFile)]
  \o [i \in 1..Len(edit.deletedFiles) |->
        Field(6, edit.deletedFiles[i].level, edit.deletedFiles[i].number, NoKey, NoFile)]
  \o [i \in 1..Len(edit.newFiles) |->
        Field(7, edit.newFiles[i].level, 0, NoKey, edit.newFiles[i].file)]

\* VersionEditRecord.decode: the fields are folded back into an edit.
DecodeField(edit, f) ==
  CASE f.tag = 1 -> [edit EXCEPT !.hasComparator = TRUE]
    [] f.tag = 2 -> [edit EXCEPT !.hasLogNumber = TRUE, !.logNumber = f.number]
    [] f.tag = 9 -> [edit EXCEPT !.hasPrevLogNumber = TRUE, !.prevLogNumber = f.number]
    [] f.tag = 3 -> [edit EXCEPT !.hasNextFileNumber = TRUE, !.nextFileNumber = f.number]
    [] f.tag = 4 -> [edit EXCEPT !.hasLastSequence = TRUE, !.lastSequence = f.number]
    [] f.tag = 5 -> [edit EXCEPT !.compactPointers =
                       Append(@, [level |-> f.level, internalKey |-> f.key])]
    [] f.tag = 6 -> EditDeleteFile(edit, f.level, f.number)
    [] f.tag = 7 -> EditAddFile(edit, f.level, f.file)

RECURSIVE DecodeFields(_, _, _)
DecodeFields(edit, record, i) ==
  IF i > Len(record) THEN edit
  ELSE DecodeFields(DecodeField(edit, record[i]), record, i + 1)

VersionEditDecode(record) == DecodeFields(EmptyEdit, record, 1)

\* ---------------------------------------------------------- VersionBuilder

\* new VersionBuilder(versionSet, base).
NewBuilder(baseFiles) ==
  [base |-> baseFiles,
   deleted |-> [l \in Levels |-> {}],
   added |-> [l \in Levels |-> {}]]

RECURSIVE ApplyDeleted(_, _, _)
ApplyDeleted(deleted, list, i) ==
  IF i > Len(list) THEN deleted
  ELSE ApplyDeleted([deleted EXCEPT ![list[i].level] = @ \cup {list[i].number}], list, i + 1)

RECURSIVE ApplyAdded(_, _, _)
ApplyAdded(b, list, i) ==
  IF i > Len(list) THEN b
  ELSE ApplyAdded([b EXCEPT !.deleted[list[i].level] = @ \ {list[i].file.number},
                            !.added[list[i].level] = @ \cup {list[i].file}],
                  list, i + 1)

\* VersionBuilder.apply, its effect on the builder: the edit's deletions are
\* added to the deleted numbers of their level, and each added file is taken
\* off the deleted numbers and put among the added files of its level.
BuilderApply(b, edit) ==
  ApplyAdded([b EXCEPT !.deleted = ApplyDeleted(@, edit.deletedFiles, 1)], edit.newFiles, 1)

RECURSIVE ApplyPointers(_, _, _)
ApplyPointers(ptrs, list, i) ==
  IF i > Len(list) THEN ptrs
  ELSE ApplyPointers([ptrs EXCEPT ![list[i].level] = list[i].internalKey], list, i + 1)

\* VersionBuilder.apply, its effect on versionSet.compactPointers.
BuilderApplyPointers(ptrs, edit) == ApplyPointers(ptrs, edit.compactPointers, 1)

\* Level 0 is kept newest first; the other levels by smallest internal key.
FileBefore(level, f, g) ==
  IF level = 0 THEN f.number > g.number
  ELSE LET c == InternalKeyCompare(f.smallest, g.smallest)
       IN  c < 0 \/ (c = 0 /\ f.number < g.number)

RECURSIVE SortFiles(_, _)
SortFiles(level, set) ==
  IF set = {} THEN <<>>
  ELSE LET first == CHOOSE f \in set : \A g \in set \ {f} : ~FileBefore(level, g, f)
       IN  <<first>> \o SortFiles(level, set \ {first})

\* VersionBuilder.saveTo: per level, the base files and the added files that
\* are not deleted, in the order of the level.
BuilderSaveTo(b) ==
  [l \in Levels |->
     SortFiles(l, {f \in Range(b.base[l]) \cup b.added[l] : f.number \notin b.deleted[l]})]

\* saveTo's validation: at a level >= 1 each file ends before the next begins.
LevelDisjoint(files) ==
  \A i \in 1..(Len(files) - 1) : InternalKeyCompare(files[i].largest, files[i + 1].smallest) < 0

SaveToValid(files) == \A l \in Levels \ {0} : LevelDisjoint(files[l])

\* -------------------------------------------------------------- VersionSet

\* getMaxBytesForLevel, in MiB: 10^level x 10 MiB.
MaxBytesForLevel(level) == (10 ^ level) * 10

\* VersionSet.getTotalBytes / Compaction.totalFileSize.
RECURSIVE TotalBytesFrom(_, _)
TotalBytesFrom(files, i) ==
  IF i > Len(files) THEN 0 ELSE files[i].fileSize + TotalBytesFrom(files, i + 1)

GetTotalBytes(files) == TotalBytesFrom(files, 1)

\* The score of a level, a fraction num / den.
LevelScore(files, level) ==
  IF level = 0 THEN [num |-> Len(files[0]), den |-> kL0CompactionTrigger]
  ELSE [num |-> GetTotalBytes(files[level]), den |-> MaxBytesForLevel(level)]

\* a / b > c / d for a, c >= 0 and b, d > 0, without a product that
\* outgrows the integers: whole parts first, then the remainders turned over.
RECURSIVE FractionGreater(_, _, _, _)
FractionGreater(a, b, c, d) ==
  IF a \div b # c \div d THEN a \div b > c \div d
  ELSE IF a % b = 0 THEN FALSE
  ELSE IF c % d = 0 THEN TRUE
  ELSE FractionGreater(d, c % d, b, a % b)

\* A slip: a level with the same score as the best so far replaces it.
ScoreGreaterOrEqual(a, b) ==
  IF b.num < 0 THEN a.num >= 0 ELSE ~FractionGreater(b.num, b.den, a.num, a.den)

\* score > bestScore; bestScore starts at -1 and a score is never negative.
ScoreGreater(a, b) ==
  IF b.num < 0 THEN a.num >= 0 ELSE FractionGreater(a.num, a.den, b.num, b.den)

RECURSIVE FinalizeFrom(_, _, _)
FinalizeFrom(files, level, best) ==
  IF level >= kNumLevels THEN best
  ELSE LET score == LevelScore(files, level)
       IN  FinalizeFrom(files, level + 1,
             IF ScoreGreater(score, best.score)
             THEN [level |-> level, score |-> score] ELSE best)

\* VersionSet.finalize: the best level and its score, starting from -1, -1.
Finalize(files) ==
  FinalizeFrom(files, 0, [level |-> -1, score |-> [num |-> -1, den |-> 1]])

\* new Version(versionSet): no files, no references, linked to itself.
NewVersion(id, files) ==
  LET best == Finalize(files)
  IN  [files |-> files, refs |-> 0, prev |-> id, next |-> id,
       compactionLevel |-> best.level, compactionScore |-> best.score]

BlankVersion(id) ==
  [files |-> EmptyFiles, refs |-> 0, prev |-> id, next |-> id,
   compactionLevel |-> -1, compactionScore |-> [num |-> -1, den |-> 1]]

\* The id of the next Version object.
FreshVersionId(vers) == CHOOSE n \in 1..(Cardinality(DOMAIN vers) + 1) : n \notin DOMAIN vers

\* A function without one element of its domain.
Without(f, x) == [y \in (DOMAIN f) \ {x} |-> f[y]]

\* Version.ref.
VersionRef(vers, id) == [vers EXCEPT ![id].refs = @ + 1]

\* Version.unref: the last reference unlinks the version from the ring and
\* the object is gone.
VersionUnref(vers, id) ==
  IF vers[id].refs > 1 THEN [vers EXCEPT ![id].refs = @ - 1]
  ELSE LET p == vers[id].prev
           n == vers[id].next
           unlinked == [[vers EXCEPT ![p].next = n] EXCEPT ![n].prev = p]
       IN  Without(unlinked, id)

\* A slip: the new version becomes current without joining the ring.
AppendVersionUnlinked(vers, cur, id, ver) ==
  LET released == IF cur \in DOMAIN vers /\ cur # 0 THEN VersionUnref(vers, cur) ELSE vers
  IN  [x \in (DOMAIN released) \cup {id} |->
         IF x = id THEN [ver EXCEPT !.refs = 1] ELSE released[x]]

\* VersionSet.appendVersion: the old current version loses a reference, the
\* new one gets one and is linked in just before the dummy head (id 0).
AppendVersion(vers, cur, id, ver) ==
  LET released == IF cur \in DOMAIN vers /\ cur # 0 THEN VersionUnref(vers, cur) ELSE vers
      last == released[0].prev
      withNew == [x \in (DOMAIN released) \cup {id} |->
                    IF x = id THEN [ver EXCEPT !.refs = 1, !.prev = last, !.next = 0]
                    ELSE released[x]]
  IN  [[withNew EXCEPT ![last].next = id] EXCEPT ![0].prev = id]

\* The Version objects right after the constructor: the dummy head and one
\* empty current version.
ConstructedVersions ==
  AppendVersion([x \in {0} |-> BlankVersion(0)], 0, 1, BlankVersion(1))

RECURSIVE LiveFrom(_, _)
LiveFrom(vers, id) ==
  IF id = 0 THEN {}
  ELSE UNION {{f.number : f \in Range(vers[id].files[l])} : l \in Levels} \cup
       LiveFrom(vers, vers[id].next)

\* VersionSet.addLiveFiles: the file numbers of every version in the ring.
AddLiveFiles(vers) == LiveFrom(vers, vers[0].next)

\* VersionSet.markFileNumberUsed.
MarkFileNumberUsed(next, num) == IF next <= num THEN num + 1 ELSE next

\* --------------------------------------------------------- MANIFEST, CURRENT

\* The content of CURRENT: the manifest number, then the newline (-1).
Newline == 0 - 1
CurrentContent(manifestNumber) == <<manifestNumber, Newline>>

NoCurrentFile == [exists |-> FALSE, content |-> <<>>]

\* VersionSet.writeSnapshot, the edit it writes: the comparator name, the
\* compaction pointers that are set, and every file of the current version.
RECURSIVE SnapshotFiles(_, _, _, _)
SnapshotFiles(edit, files, level, i) ==
  IF level >= kNumLevels THEN edit
  ELSE IF i > Len(files[level]) THEN SnapshotFiles(edit, files, level + 1, 1)
  ELSE SnapshotFiles(EditAddFile(edit, level, files[level][i]), files, level, i + 1)

RECURSIVE SnapshotPointers(_, _, _)
SnapshotPointers(edit, ptrs, level) ==
  IF level >= kNumLevels THEN edit
  ELSE SnapshotPointers(
         IF ptrs[level] # NoKey
         THEN [edit EXCEPT !.compactPointers =
                 Append(@, [level |-> level, internalKey |-> ptrs[level]])]
         ELSE edit,
         ptrs, level + 1)

\* A slip: the snapshot leaves the files out.
WriteSnapshotNoFiles(ptrs, files) ==
  SnapshotPointers([EmptyEdit EXCEPT !.hasComparator = TRUE], ptrs, 0)

WriteSnapshot(ptrs, files) ==
  SnapshotFiles(SnapshotPointers([EmptyEdit EXCEPT !.hasComparator = TRUE], ptrs, 0),
                files, 0, 1)

\* logAndApply, lines 296-308: the edit gets the log numbers it does not
\* carry, the next file number and the last sequence.
PrepareEdit(edit, next) ==
  LET e1 == IF edit.hasLogNumber THEN edit
            ELSE [edit EXCEPT !.hasLogNumber = TRUE, !.logNumber = logNumber]
      e2 == IF e1.hasPrevLogNumber THEN e1
            ELSE [e1 EXCEPT !.hasPrevLogNumber = TRUE, !.prevLogNumber = prevLogNumber]
  IN  [e2 EXCEPT !.hasNextFileNumber = TRUE, !.nextFileNumber = next,
                 !.hasLastSequence = TRUE, !.lastSequence = lastSequence]

\* logAndApply's assertions on an edit that carries a log number.
EditAccepted(edit) ==
  edit.hasLogNumber => (edit.logNumber >= logNumber /\ edit.logNumber < nextFileNumber)

\* logAndApply, lines 310-314: the version the edit makes of the current one.
BuildVersion(edit) == BuilderSaveTo(BuilderApply(NewBuilder(versions[current].files), edit))

\* The replay of a MANIFEST by recover: every record goes through one
\* builder that starts from an empty version.
RECURSIVE ReplayFrom(_, _, _)
ReplayFrom(records, i, acc) ==
  IF i > Len(records) THEN acc
  ELSE LET edit == VersionEditDecode(records[i])
       IN  ReplayFrom(records, i + 1,
             [builder |-> BuilderApply(acc.builder, edit),
              pointers |-> BuilderApplyPointers(acc.pointers, edit),
              hasLogNumber |-> acc.hasLogNumber \/ edit.hasLogNumber,
              logNumber |-> IF edit.hasLogNumber THEN edit.logNumber ELSE acc.logNumber,
              hasPrevLogNumber |-> acc.hasPrevLogNumber \/ edit.hasPrevLogNumber,
              prevLogNumber |-> IF edit.hasPrevLogNumber THEN edit.prevLogNumber
                                ELSE acc.prevLogNumber,
              hasNextFileNumber |-> acc.hasNextFileNumber \/ edit.hasNextFileNumber,
              nextFileNumber |-> IF edit.hasNextFileNumber THEN edit.nextFileNumber
                                 ELSE acc.nextFileNumber,
              hasLastSequence |-> acc.hasLastSequence \/ edit.hasLastSequence,
              lastSequence |-> IF edit.hasLastSequence THEN edit.lastSequence
                               ELSE acc.lastSequence])

Replay(records) ==
  ReplayFrom(records, 1,
    [builder |-> NewBuilder(EmptyFiles),
     pointers |-> [l \in Levels |-> NoKey],
     hasLogNumber |-> FALSE, logNumber |-> 0,
     hasPrevLogNumber |-> FALSE, prevLogNumber |-> 0,
     hasNextFileNumber |-> FALSE, nextFileNumber |-> 0,
     hasLastSequence |-> FALSE, lastSequence |-> 0])

\* recover, lines 148-154 and 170-174: CURRENT is there, ends with a newline
\* and names a MANIFEST that can be opened.
CurrentReadable ==
  /\ currentFile.exists
  /\ currentFile.content # <<>>
  /\ currentFile.content[Len(currentFile.content)] = Newline
  /\ currentFile.content[1] \in DOMAIN manifests

\* A slip: the check of the last sequence is left out.
RecoverAcceptsWithoutLastSequence(r) == r.hasNextFileNumber /\ r.hasLogNumber

\* recover, lines 209-215.
RecoverAccepts(r) == r.hasNextFileNumber /\ r.hasLogNumber /\ r.hasLastSequence

\* ------------------------------------------------------- tables and lookups

\* Internal keys in the order of the comparator.
RECURSIVE SortKeys(_)
SortKeys(set) ==
  IF set = {} THEN <<>>
  ELSE LET first == CHOOSE k \in set : \A j \in set \ {k} : InternalKeyCompare(k, j) < 0
       IN  <<first>> \o SortKeys(set \ {first})

\* parseInternalKey, the sequence number: the 7 low bytes of the tail
\* (numbers below 2^16 here).
ParsedSequence(ikey) == KeyTail(ikey)[1] + 256 * KeyTail(ikey)[2]

\* The metadata of a table file holding these entries.
TableMeta(number, entries) ==
  FileMetaData(number, Len(entries) * EntrySize, entries[1], entries[Len(entries)])

Miss == [hit |-> FALSE, type |-> kTypeDeletion, sequence |-> 0]

\* A lookup in a sorted run of entries (a memtable or a table): the first
\* entry >= the lookup key is the answer when its user key matches.
TableGet(entries, userKey, lookup) ==
  LET ge == {i \in 1..Len(entries) : InternalKeyCompare(entries[i], lookup) >= 0}
  IN  IF ge = {} THEN Miss
      ELSE LET at == CHOOSE i \in ge : \A j \in ge : i <= j
           IN  IF BytewiseCompare(ExtractUserKey(entries[at]), userKey) = 0
               THEN [hit |-> TRUE, type |-> InternalKeyType(entries[at]),
                     sequence |-> ParsedSequence(entries[at])]
               ELSE Miss

\* The user key lies in the user-key range of the file.
FileCovers(f, userKey) ==
  /\ BytewiseCompare(userKey, ExtractUserKey(f.smallest)) >= 0
  /\ BytewiseCompare(userKey, ExtractUserKey(f.largest)) <= 0

\* Level 0 of the read path: every file that covers the key, newest first.
RECURSIVE GetLevel0(_, _, _, _, _)
GetLevel0(tbls, files, i, userKey, lookup) ==
  IF i > Len(files) THEN Miss
  ELSE LET r == IF FileCovers(files[i], userKey)
                THEN TableGet(tbls[files[i].number], userKey, lookup) ELSE Miss
       IN  IF r.hit THEN r ELSE GetLevel0(tbls, files, i + 1, userKey, lookup)

\* A level >= 1 of the read path: the first file whose largest key is >= the
\* lookup key, if it starts at or before the user key.
GetLevelN(tbls, files, userKey, lookup) ==
  LET ge == {i \in 1..Len(files) : InternalKeyCompare(files[i].largest, lookup) >= 0}
  IN  IF ge = {} THEN Miss
      ELSE LET at == CHOOSE i \in ge : \A j \in ge : i <= j
           IN  IF BytewiseCompare(userKey, ExtractUserKey(files[at].smallest)) >= 0
               THEN TableGet(tbls[files[at].number], userKey, lookup)
               ELSE Miss

RECURSIVE GetFromLevels(_, _, _, _, _)
GetFromLevels(tbls, vfiles, level, userKey, lookup) ==
  IF level >= kNumLevels THEN Miss
  ELSE LET r == IF level = 0 THEN GetLevel0(tbls, vfiles[0], 1, userKey, lookup)
                ELSE GetLevelN(tbls, vfiles[level], userKey, lookup)
       IN  IF r.hit THEN r ELSE GetFromLevels(tbls, vfiles, level + 1, userKey, lookup)

\* The read path at sequence s: the memtable, then the levels of the version;
\* the first hit wins, and a deletion reads as nothing.
GetAt(mem, tbls, vfiles, userKey, s) ==
  LET lookup == AppendInternalKey(userKey, s, kValueTypeForSeek)
      m == TableGet(mem, userKey, lookup)
      r == IF m.hit THEN m ELSE GetFromLevels(tbls, vfiles, 0, userKey, lookup)
  IN  IF r.hit /\ r.type = kTypeValue
      THEN [found |-> TRUE, sequence |-> r.sequence]
      ELSE [found |-> FALSE, sequence |-> 0]

\* --------------------------------------------------------- compaction inputs

\* Version.getOverlappingInputs at level 0: the range grows to the range of
\* every file it touches.
RECURSIVE ExpandRange(_, _, _)
ExpandRange(files, ub, ue) ==
  LET touching == {i \in 1..Len(files) :
                     /\ BytewiseCompare(ExtractUserKey(files[i].largest), ub) >= 0
                     /\ BytewiseCompare(ExtractUserKey(files[i].smallest), ue) <= 0}
      lower == {i \in touching : BytewiseCompare(ExtractUserKey(files[i].smallest), ub) < 0}
      upper == {i \in touching : BytewiseCompare(ExtractUserKey(files[i].largest), ue) > 0}
  IN  IF lower # {}
      THEN ExpandRange(files, ExtractUserKey(files[CHOOSE i \in lower : TRUE].smallest), ue)
      ELSE IF upper # {}
      THEN ExpandRange(files, ub, ExtractUserKey(files[CHOOSE i \in upper : TRUE].largest))
      ELSE [begin |-> ub, end |-> ue]

\* Version.getOverlappingInputs: the files of the level whose user-key range
\* meets [begin, end], in the order of the level.
GetOverlappingInputs(vfiles, level, begin, end) ==
  LET given == [begin |-> ExtractUserKey(begin), end |-> ExtractUserKey(end)]
      range == IF level = 0 THEN ExpandRange(vfiles[0], given.begin, given.end) ELSE given
  IN  SelectSeq(vfiles[level],
        LAMBDA f : /\ BytewiseCompare(ExtractUserKey(f.largest), range.begin) >= 0
                   /\ BytewiseCompare(ExtractUserKey(f.smallest), range.end) <= 0)

\* VersionSet.getRange / getRange2: the smallest and the largest key of the
\* files.
GetRange(inputs) ==
  [smallest |-> (CHOOSE f \in Range(inputs) : \A g \in Range(inputs) :
                   InternalKeyCompare(f.smallest, g.smallest) <= 0).smallest,
   largest |-> (CHOOSE f \in Range(inputs) : \A g \in Range(inputs) :
                  InternalKeyCompare(f.largest, g.largest) >= 0).largest]

\* VersionSet.findLargestKey.
FindLargestKey(files) ==
  (CHOOSE f \in Range(files) : \A g \in Range(files) :
     InternalKeyCompare(f.largest, g.largest) >= 0).largest

\* VersionSet.findSmallestBoundaryFile: the files that start after
\* largestKey with its user key, and the least of them.
BoundaryFiles(levelFiles, largestKey) ==
  {f \in Range(levelFiles) :
     /\ InternalKeyCompare(f.smallest, largestKey) > 0
     /\ BytewiseCompare(ExtractUserKey(f.smallest), ExtractUserKey(largestKey)) = 0}

FindSmallestBoundaryFile(levelFiles, largestKey) ==
  CHOOSE f \in BoundaryFiles(levelFiles, largestKey) :
    \A g \in BoundaryFiles(levelFiles, largestKey) :
      InternalKeyCompare(f.smallest, g.smallest) <= 0

RECURSIVE AddBoundaryFrom(_, _, _)
AddBoundaryFrom(levelFiles, compactionFiles, largestKey) ==
  IF BoundaryFiles(levelFiles, largestKey) = {} THEN compactionFiles
  ELSE LET b == FindSmallestBoundaryFile(levelFiles, largestKey)
       IN  AddBoundaryFrom(levelFiles, Append(compactionFiles, b), b.largest)

\* A slip: boundary files are left behind.
AddNoBoundaryInputs(levelFiles, compactionFiles) == compactionFiles

\* VersionSet.addBoundaryInputs.
AddBoundaryInputs(levelFiles, compactionFiles) ==
  IF compactionFiles = <<>> THEN compactionFiles
  ELSE AddBoundaryFrom(levelFiles, compactionFiles, FindLargestKey(compactionFiles))

\* new Compaction(options, level), with its two input lists (inputs[1] is
\* the code's inputs[0]).
NewCompaction(level) ==
  [level |-> level, inputs |-> <<(<<>>), (<<>>)>>,
   grandparents |-> <<>>, hasGrandparents |-> FALSE,
   inputVersion |-> 0, inputFiles |-> EmptyFiles,
   edit |-> EmptyEdit, phase |-> "picked", releases |-> 0,
   pointerBefore |-> NoKey]

NoCompaction == [NewCompaction(0) EXCEPT !.phase = "none"]

\* setupOtherInputs, lines 695-710: the grandparents, when level + 2 is a
\* level, and the compaction pointer pushed onto the edit.
SetupGrandparents(vfiles, c, out0, out1, largest) ==
  LET allOut == GetRange(out0 \o out1)
      hasGp == c.level + 2 < kNumLevels
  IN  [c EXCEPT !.inputs = <<out0, out1>>,
                !.hasGrandparents = hasGp,
                !.grandparents =
                   IF hasGp
                   THEN GetOverlappingInputs(vfiles, c.level + 2, allOut.smallest, allOut.largest)
                   ELSE <<>>,
                !.edit.compactPointers =
                   Append(@, [level |-> c.level, internalKey |-> largest])]

\* A slip: the wider inputs are taken whenever they are more files.
SetupExpandedAlways(vfiles, c, in0, in1, largest, expand0) ==
  LET r1 == GetRange(expand0)
  IN  IF Len(expand0) > Len(in0)
      THEN SetupGrandparents(vfiles, c, expand0,
             GetOverlappingInputs(vfiles, c.level + 1, r1.smallest, r1.largest), r1.largest)
      ELSE SetupGrandparents(vfiles, c, in0, in1, largest)

\* setupOtherInputs, lines 663-692: the wider inputs are taken when they are
\* more files, stay under the size limit and pull in no other file of
\* level + 1.
SetupExpanded(vfiles, c, in0, in1, largest, expand0) ==
  LET r1 == GetRange(expand0)
      expand1 == GetOverlappingInputs(vfiles, c.level + 1, r1.smallest, r1.largest)
  IN  IF /\ Len(expand0) > Len(in0)
         /\ GetTotalBytes(in1) + GetTotalBytes(expand0) < ExpandedCompactionByteSizeLimit
         /\ Len(expand1) = Len(in1)
      THEN SetupGrandparents(vfiles, c, expand0, expand1, r1.largest)
      ELSE SetupGrandparents(vfiles, c, in0, in1, largest)

\* setupOtherInputs, lines 649-662: the files of the level that overlap the
\* range of all inputs, with their boundary files.
SetupExpand(vfiles, c, in0, in1, largest) ==
  LET all == GetRange(in0 \o in1)
  IN  SetupExpanded(vfiles, c, in0, in1, largest,
        AddBoundaryInputs(vfiles[c.level],
          GetOverlappingInputs(vfiles, c.level, all.smallest, all.largest)))

\* setupOtherInputs, lines 643-648: the files of level + 1 that overlap the
\* range of the inputs.
SetupParents(vfiles, c, in0) ==
  LET r0 == GetRange(in0)
  IN  SetupExpand(vfiles, c, in0,
        GetOverlappingInputs(vfiles, c.level + 1, r0.smallest, r0.largest), r0.largest)

\* A slip: the files of level + 1 are not taken as inputs.
SetupOtherInputsNoParents(vfiles, c) ==
  SetupGrandparents(vfiles, c, AddBoundaryInputs(vfiles[c.level], c.inputs[1]), <<>>,
                    FindLargestKey(AddBoundaryInputs(vfiles[c.level], c.inputs[1])))

\* VersionSet.setupOtherInputs, its effect on the compaction.
SetupOtherInputs(vfiles, c) ==
  SetupParents(vfiles, c, AddBoundaryInputs(vfiles[c.level], c.inputs[1]))

\* A slip: the pointer waits for the edit to be applied.
PointerAfterSetupUnchanged(ptrs, c) == ptrs

\* setupOtherInputs, its effect on versionSet.compactPointers: the pointer
\* of the level is the key the compaction pushed onto its edit.
PointerAfterSetup(ptrs, c) ==
  [ptrs EXCEPT ![c.level] = c.edit.compactPointers[Len(c.edit.compactPointers)].internalKey]

\* A slip: the range is never cut.
CapInputsNever(inputs, i, total) == inputs

\* VersionSet.compactRange: the files it starts from, capped at level > 0.
RECURSIVE CapInputs(_, _, _)
CapInputs(inputs, i, total) ==
  IF i > Len(inputs) THEN inputs
  ELSE IF total + inputs[i].fileSize >= MaxFileSize THEN SubSeq(inputs, 1, i)
  ELSE CapInputs(inputs, i + 1, total + inputs[i].fileSize)

CompactRangeInputs(vfiles, level, begin, end) ==
  LET inputs == GetOverlappingInputs(vfiles, level, begin, end)
  IN  IF level > 0 THEN CapInputs(inputs, 1, 0) ELSE inputs

\* A slip: the compaction pointer is not looked at.
PickSeedFirstFile(vfiles, ptrs, level) == vfiles[level][1]

\* VersionSet.pickCompaction, the size-triggered branch, lines 464-479: the
\* first file of the level that ends after the compaction pointer, or any
\* first file when the pointer is not set or empty; else the first file.
PickSeed(vfiles, ptrs, level) ==
  LET after == {i \in 1..Len(vfiles[level]) :
                  ptrs[level] = NoKey \/ InternalKeyCompare(vfiles[level][i].largest, ptrs[level]) > 0}
  IN  IF after = {} THEN vfiles[level][1]
      ELSE vfiles[level][CHOOSE i \in after : \A j \in after : i <= j]

\* pickCompaction, lines 491-500: at level 0 the picked file is replaced by
\* every file that overlaps it.
PickLevel0(vfiles, level, picked) ==
  IF level = 0
  THEN GetOverlappingInputs(vfiles, 0, picked.smallest, picked.largest)
  ELSE <<picked>>

PickInputs(vfiles, ptrs, level) == PickLevel0(vfiles, level, PickSeed(vfiles, ptrs, level))

\* Compaction.isTrivialMove.
IsTrivialMove(c) ==
  /\ Len(c.inputs[1]) = 1
  /\ Len(c.inputs[2]) = 0
  /\ GetTotalBytes(c.grandparents) <= MaxGrandParentOverlapBytes

\* A slip: the grandparents are not looked at.
IsTrivialMoveCallNoGrandparents(c) ==
  [threw |-> FALSE, result |-> Len(c.inputs[1]) = 1 /\ Len(c.inputs[2]) = 0]

\* isTrivialMove as a call: the conjunction is evaluated from the left, and
\* totalFileSize iterates over grandparents, which throws when the field
\* was never set.
IsTrivialMoveCall(c) ==
  IF Len(c.inputs[1]) = 1 /\ Len(c.inputs[2]) = 0
    THEN IF c.hasGrandparents
           THEN [threw |-> FALSE, result |-> GetTotalBytes(c.grandparents) <= MaxGrandParentOverlapBytes]
           ELSE [threw |-> TRUE, result |-> FALSE]
    ELSE [threw |-> FALSE, result |-> FALSE]

\* A slip: every key is taken to be at its base level.
IsBaseLevelAlways(vfiles, level, userKey, levelPtrs) ==
  [result |-> TRUE, levelPtrs |-> levelPtrs]

\* Compaction.isBaseLevelForKey, from level on: the pointer of each level
\* moves past the files that end before the key.
RECURSIVE IsBaseLevelForKey(_, _, _, _)
IsBaseLevelForKey(vfiles, level, userKey, levelPtrs) ==
  IF level >= kNumLevels THEN [result |-> TRUE, levelPtrs |-> levelPtrs]
  ELSE LET files == vfiles[level]
           p == levelPtrs[level]
       IN  IF p < Len(files)
           THEN LET f == files[p + 1]
                IN  IF BytewiseCompare(userKey, ExtractUserKey(f.largest)) <= 0
                    THEN IF BytewiseCompare(userKey, ExtractUserKey(f.smallest)) >= 0
                         THEN [result |-> FALSE, levelPtrs |-> levelPtrs]
                         ELSE IsBaseLevelForKey(vfiles, level + 1, userKey, levelPtrs)
                    ELSE IsBaseLevelForKey(vfiles, level, userKey,
                                           [levelPtrs EXCEPT ![level] = p + 1])
           ELSE IsBaseLevelForKey(vfiles, level + 1, userKey, levelPtrs)

\* A slip: the files passed before the first key are counted as well.
RECURSIVE PassGrandparentsCountAll(_, _, _)
PassGrandparentsCountAll(grandparents, internalKey, st) ==
  IF /\ st.grandparentIndex < Len(grandparents)
     /\ InternalKeyCompare(internalKey, grandparents[st.grandparentIndex + 1].largest) > 0
  THEN PassGrandparentsCountAll(grandparents, internalKey,
         [st EXCEPT !.overlappedBytes = @ + grandparents[st.grandparentIndex + 1].fileSize,
                    !.grandparentIndex = @ + 1])
  ELSE st

\* Compaction.shouldStopBefore: the grandparent index moves past the files
\* that end before the key, their sizes add up once a key has been seen.
RECURSIVE PassGrandparents(_, _, _)
PassGrandparents(grandparents, internalKey, st) ==
  IF /\ st.grandparentIndex < Len(grandparents)
     /\ InternalKeyCompare(internalKey, grandparents[st.grandparentIndex + 1].largest) > 0
  THEN PassGrandparents(grandparents, internalKey,
         [st EXCEPT !.overlappedBytes =
                       IF st.seenKey THEN @ + grandparents[st.grandparentIndex + 1].fileSize
                       ELSE @,
                    !.grandparentIndex = @ + 1])
  ELSE st

ShouldStopBefore(grandparents, internalKey, st) ==
  LET passed == [PassGrandparents(grandparents, internalKey, st) EXCEPT !.seenKey = TRUE]
  IN  IF passed.overlappedBytes > MaxGrandParentOverlapBytes
      THEN [stop |-> TRUE, state |-> [passed EXCEPT !.overlappedBytes = 0]]
      ELSE [stop |-> FALSE, state |-> passed]

\* shouldStopBefore as a call: grandparents.length is read first, which
\* throws when the field was never set.
ShouldStopBeforeCall(c, internalKey, st) ==
  IF c.hasGrandparents
    THEN [threw |-> FALSE] @@ ShouldStopBefore(c.grandparents, internalKey, st)
    ELSE [threw |-> TRUE, stop |-> FALSE, state |-> st]

\* Compaction.addInputDeletions.
RECURSIVE DeleteInputs(_, _, _, _)
DeleteInputs(edit, level, files, i) ==
  IF i > Len(files) THEN edit
  ELSE DeleteInputs(EditDeleteFile(edit, level, files[i].number), level, files, i + 1)

\* A slip: the files of level + 1 are not deleted.
AddInputDeletionsOneLevel(c, edit) == DeleteInputs(edit, c.level, c.inputs[1], 1)

AddInputDeletions(c, edit) ==
  DeleteInputs(DeleteInputs(edit, c.level, c.inputs[1], 1), c.level + 1, c.inputs[2], 1)

\* ------------------------------------------------- VersionSet, step by step

NoCall == [pc |-> "idle", created |-> FALSE, edit |-> EmptyEdit, files |-> EmptyFiles]

NoRecord == <<>>

NoPre == [current |-> 0, logNumber |-> 0, prevLogNumber |-> 0, currentFile |-> NoCurrentFile]

NoAfter == [calls |-> 0, files |-> EmptyFiles, lastSequence |-> 0, logNumber |-> 0]

\* The state a VersionSet has after its constructor.
Constructed ==
  /\ versions = ConstructedVersions
  /\ current = 1
  /\ logNumber = 0
  /\ prevLogNumber = 0
  /\ lastSequence = 0
  /\ manifestFileNumber = 0
  /\ nextFileNumber = 2
  /\ manifestWriter = FALSE
  /\ compactPointers = [l \in Levels |-> NoKey]

InitVS ==
  /\ Constructed
  /\ manifests = <<>>
  /\ currentFile = NoCurrentFile
  /\ call = NoCall
  /\ pending = {}
  /\ handedOut = {}
  /\ reissued = FALSE
  /\ pre = NoPre
  /\ afterCall = NoAfter
  /\ lastOutcome = "constructed"
  /\ allSucceeded = TRUE
  /\ currentRecord = NoRecord
  /\ callsBegun = 0
  /\ reopens = 0

\* The VersionSet can be used: its recover, if any, did not throw.
Usable == lastOutcome # "recoverFailed"

\* getNextFileNumber.
GetNextFileNumber ==
  /\ Usable
  /\ call.pc = "idle"
  /\ nextFileNumber <= MaxFileNumber
  /\ nextFileNumber' = nextFileNumber + 1
  /\ pending' = pending \cup {nextFileNumber}
  /\ reissued' = (reissued \/ \E n \in handedOut : n >= nextFileNumber)
  /\ handedOut' = handedOut \cup {nextFileNumber}
  /\ UNCHANGED <<versions, current, logNumber, prevLogNumber, lastSequence,
                 manifestFileNumber, manifestWriter, compactPointers>>
  /\ UNCHANGED <<diskVars, call, pre, afterCall, lastOutcome, allSucceeded,
                 currentRecord, callsBegun, reopens>>
  /\ UNCHANGED <<memVars, dbVars, lockVars, fnVars>>

\* The lastSequence setter, as a write that took one sequence number.
SetLastSequence ==
  /\ Usable
  /\ call.pc = "idle"
  /\ lastSequence < MaxLastSequence
  /\ lastSequence' = lastSequence + 1
  /\ UNCHANGED <<versions, current, logNumber, prevLogNumber,
                 manifestFileNumber, nextFileNumber, manifestWriter, compactPointers>>
  /\ UNCHANGED <<diskVars, call, histVars, memVars, dbVars, lockVars, fnVars>>

\* The internal keys the files of the VersionSet specification span.
VsKeys == {AppendInternalKey(<<97>>, 1, kTypeValue), AppendInternalKey(<<98>>, 1, kTypeValue)}

\* The edits a caller hands to logAndApply: a new level-0 table under a
\* number it was given, with or without a new log number, or the move of a
\* file to the next level.
EditInputs ==
  {EditAddFile(EmptyEdit, 0, FileMetaData(n, 1, k, k)) : n \in pending, k \in VsKeys}
  \cup
  UNION {{EditAddFile([EmptyEdit EXCEPT !.hasLogNumber = TRUE, !.logNumber = m],
                      0, FileMetaData(n, 1, k, k)) :
            m \in pending \ {n}, k \in VsKeys} : n \in pending}
  \cup
  UNION {{EditAddFile(EditDeleteFile(EmptyEdit, l, f.number), l + 1, f) :
            f \in Range(versions[current].files[l])} : l \in 0..(MaxMoveLevel - 1)}

EditNumbers(edit) ==
  {edit.newFiles[i].file.number : i \in 1..Len(edit.newFiles)}
  \cup (IF edit.hasLogNumber THEN {edit.logNumber} ELSE {})

\* env.open(name, "a"): the file is created when it is not there.
OpenAppend(files, number) ==
  IF number \in DOMAIN files THEN files
  ELSE [n \in (DOMAIN files) \cup {number} |-> IF n = number THEN <<>> ELSE files[n]]

\* LogWriter.addRecord on MANIFEST-number.
AddRecord(files, number, record) == [files EXCEPT ![number] = Append(@, record)]

\* logAndApply up to the first write: the edit is completed, the new version
\* is built and, as no manifest writer is open, MANIFEST-manifestFileNumber
\* is opened for appending.
LogAndApplyBegin(edit) ==
  /\ Usable
  /\ call.pc = "idle"
  /\ callsBegun < MaxCalls
  /\ EditAccepted(edit)
  /\ LET e == PrepareEdit(edit, nextFileNumber)
         files == BuildVersion(e)
     IN  /\ SaveToValid(files)
         /\ compactPointers' = BuilderApplyPointers(compactPointers, e)
         /\ IF ~manifestWriter
            THEN /\ manifests' = OpenAppend(manifests, manifestFileNumber)
                 /\ manifestWriter' = TRUE
                 /\ call' = [pc |-> "snapshot", created |-> TRUE, edit |-> e, files |-> files]
            ELSE /\ UNCHANGED <<manifests, manifestWriter>>
                 /\ call' = [pc |-> "record", created |-> FALSE, edit |-> e, files |-> files]
  /\ pre' = [current |-> current, logNumber |-> logNumber,
             prevLogNumber |-> prevLogNumber, currentFile |-> currentFile]
  /\ pending' = pending \ EditNumbers(edit)
  /\ callsBegun' = callsBegun + 1
  /\ lastOutcome' = "running"
  /\ UNCHANGED <<versions, current, logNumber, prevLogNumber, lastSequence,
                 manifestFileNumber, nextFileNumber, currentFile>>
  /\ UNCHANGED <<handedOut, reissued, afterCall, allSucceeded, currentRecord, reopens>>
  /\ UNCHANGED <<memVars, dbVars, lockVars, fnVars>>

\* What a step of a call in flight leaves alone.
StepUnchanged ==
  /\ UNCHANGED <<versions, current, logNumber, prevLogNumber, lastSequence,
                 manifestFileNumber, nextFileNumber, manifestWriter, compactPointers>>
  /\ UNCHANGED histVars
  /\ UNCHANGED <<memVars, dbVars, lockVars, fnVars>>

\* writeSnapshot: the snapshot of the current version is appended.
WriteSnapshotOk ==
  /\ call.pc = "snapshot"
  /\ manifests' = AddRecord(manifests, manifestFileNumber,
                    VersionEditEncode(WriteSnapshot(compactPointers, versions[current].files)))
  /\ call' = [call EXCEPT !.pc = "record"]
  /\ UNCHANGED currentFile
  /\ StepUnchanged

\* writeSnapshot fails: the record write and the CURRENT write are skipped.
WriteSnapshotFail ==
  /\ call.pc = "snapshot"
  /\ call' = [call EXCEPT !.pc = "abort"]
  /\ UNCHANGED diskVars
  /\ StepUnchanged

\* logAndApply, lines 337-339: the record of the edit is appended.
AddRecordOk ==
  /\ call.pc = "record"
  /\ manifests' = AddRecord(manifests, manifestFileNumber, VersionEditEncode(call.edit))
  /\ call' = [call EXCEPT !.pc = IF call.created THEN "current" ELSE "install"]
  /\ UNCHANGED currentFile
  /\ StepUnchanged

AddRecordFail ==
  /\ call.pc = "record"
  /\ call' = [call EXCEPT !.pc = "abort"]
  /\ UNCHANGED diskVars
  /\ StepUnchanged

\* writeCurrentFile, env.writeFile(CURRENT, ...): the file is opened for
\* writing, which creates it or empties it ...
WriteCurrentOpen ==
  /\ call.pc = "current"
  /\ currentFile' = [exists |-> TRUE, content |-> <<>>]
  /\ call' = [call EXCEPT !.pc = "currentWriting"]
  /\ UNCHANGED manifests
  /\ StepUnchanged

\* ... or cannot be opened,
WriteCurrentOpenFail ==
  /\ call.pc = "current"
  /\ call' = [call EXCEPT !.pc = "abort"]
  /\ UNCHANGED diskVars
  /\ StepUnchanged

\* ... then the name of the manifest and the newline are written,
WriteCurrentFinish ==
  /\ call.pc = "currentWriting"
  /\ currentFile' = [exists |-> TRUE, content |-> CurrentContent(manifestFileNumber)]
  /\ call' = [call EXCEPT !.pc = "install"]
  /\ UNCHANGED manifests
  /\ StepUnchanged

\* ... or the write fails with none or a part of the content in the file.
WriteCurrentFinishFail ==
  /\ call.pc = "currentWriting"
  /\ \E written \in {<<>>, <<manifestFileNumber>>} :
       currentFile' = [exists |-> TRUE, content |-> written]
  /\ call' = [call EXCEPT !.pc = "abort"]
  /\ UNCHANGED manifests
  /\ StepUnchanged

\* logAndApply, lines 353-363: the writer is closed and dropped, the new
\* version becomes current, the log numbers are taken from the edit.
Install ==
  /\ call.pc = "install"
  /\ manifestWriter' = (IF call.created THEN FALSE ELSE manifestWriter)
  /\ LET id == FreshVersionId(versions)
     IN  /\ versions' = AppendVersion(versions, current, id, NewVersion(id, call.files))
         /\ current' = id
  /\ logNumber' = call.edit.logNumber
  /\ prevLogNumber' = call.edit.prevLogNumber
  /\ call' = NoCall
  /\ afterCall' = [calls |-> callsBegun, files |-> call.files,
                   lastSequence |-> call.edit.lastSequence,
                   logNumber |-> call.edit.logNumber]
  /\ currentRecord' = VersionEditEncode(call.edit)
  /\ lastOutcome' = "installed"
  /\ UNCHANGED <<lastSequence, manifestFileNumber, nextFileNumber, compactPointers>>
  /\ UNCHANGED <<diskVars, pending, handedOut, reissued, pre, allSucceeded,
                 callsBegun, reopens>>
  /\ UNCHANGED <<memVars, dbVars, lockVars, fnVars>>

\* logAndApply, lines 364-372: the writer is closed and dropped and the
\* manifest file this call opened is unlinked.
Abort ==
  /\ call.pc = "abort"
  /\ IF call.created
     THEN /\ manifestWriter' = FALSE
          /\ manifests' = Without(manifests, manifestFileNumber)
     ELSE UNCHANGED <<manifestWriter, manifests>>
  /\ call' = NoCall
  /\ lastOutcome' = "failed"
  /\ allSucceeded' = FALSE
  /\ UNCHANGED <<versions, current, logNumber, prevLogNumber, lastSequence,
                 manifestFileNumber, nextFileNumber, compactPointers, currentFile>>
  /\ UNCHANGED <<pending, handedOut, reissued, pre, afterCall, currentRecord,
                 callsBegun, reopens>>
  /\ UNCHANGED <<memVars, dbVars, lockVars, fnVars>>

\* What recover leaves in a fresh VersionSet when it does not throw.
Recovered(r) ==
  LET files == BuilderSaveTo(r.builder)
      vers == AppendVersion(ConstructedVersions, 1, 2, NewVersion(2, files))
  IN  /\ versions' = vers
      /\ current' = 2
      /\ manifestFileNumber' = r.nextFileNumber
      \* markFileNumberUsed(prevLogNumber) and markFileNumberUsed(logNumber),
      \* lines 221-222, raise this.nextFileNumber; line 232 then assigns it.
      /\ nextFileNumber' = r.nextFileNumber + 1
      /\ lastSequence' = r.lastSequence
      /\ logNumber' = r.logNumber
      /\ prevLogNumber' = (IF r.hasPrevLogNumber THEN r.prevLogNumber ELSE 0)
      /\ compactPointers' = r.pointers

\* recover throws on CURRENT or on opening the MANIFEST (lines 147-174): the
\* fresh VersionSet, whose next file number is next, is as constructed.
RecoverThrewBeforeReplay(next) ==
  /\ versions' = ConstructedVersions
  /\ current' = 1
  /\ logNumber' = 0
  /\ prevLogNumber' = 0
  /\ lastSequence' = 0
  /\ manifestFileNumber' = 0
  /\ nextFileNumber' = next
  /\ compactPointers' = [l \in Levels |-> NoKey]

\* recover throws after the replay: on a missing field (lines 209-215), with
\* nothing but the compaction pointers the builder recorded changed, or in
\* saveTo (line 222), after markFileNumberUsed has run (lines 217-218).
RecoverThrewAfterReplay(r, next) ==
  /\ versions' = ConstructedVersions
  /\ current' = 1
  /\ logNumber' = 0
  /\ prevLogNumber' = 0
  /\ lastSequence' = 0
  /\ manifestFileNumber' = 0
  /\ nextFileNumber' =
       (IF RecoverAccepts(r)
        THEN MarkFileNumberUsed(
               MarkFileNumberUsed(next, IF r.hasPrevLogNumber THEN r.prevLogNumber ELSE 0),
               r.logNumber)
        ELSE next)
  /\ compactPointers' = r.pointers

\* The process ends, at any point of a call, and a fresh VersionSet is
\* constructed on the directory; it runs recover when CURRENT is there.
\* The numbers handed out are remembered across a recovery only: with no
\* CURRENT the directory holds no database yet.
Reopen ==
  /\ reopens < MaxReopens
  /\ reopens' = reopens + 1
  /\ manifestWriter' = FALSE
  /\ call' = NoCall
  /\ pending' = {}
  /\ currentRecord' = NoRecord
  /\ allSucceeded' = (allSucceeded /\ call.pc = "idle")
  /\ IF ~currentFile.exists
     THEN /\ versions' = ConstructedVersions
          /\ current' = 1
          /\ logNumber' = 0
          /\ prevLogNumber' = 0
          /\ lastSequence' = 0
          /\ manifestFileNumber' = 0
          /\ nextFileNumber' = 2
          /\ compactPointers' = [l \in Levels |-> NoKey]
          /\ lastOutcome' = "constructed"
          /\ handedOut' = {}
     ELSE IF CurrentReadable
     THEN LET r == Replay(manifests[currentFile.content[1]])
          IN  IF RecoverAccepts(r) /\ SaveToValid(BuilderSaveTo(r.builder))
              THEN /\ Recovered(r)
                   /\ lastOutcome' = "recovered"
                   /\ UNCHANGED handedOut
              ELSE /\ RecoverThrewAfterReplay(r, 2)
                   /\ lastOutcome' = "recoverFailed"
                   /\ UNCHANGED handedOut
     ELSE /\ RecoverThrewBeforeReplay(2)
          /\ lastOutcome' = "recoverFailed"
          /\ UNCHANGED handedOut
  /\ UNCHANGED <<diskVars, reissued, pre, afterCall, callsBegun>>
  /\ UNCHANGED <<memVars, dbVars, lockVars, fnVars>>

\* recover() on the VersionSet as constructed, over the directory as it is.
Recover ==
  /\ lastOutcome = "constructed"
  /\ call.pc = "idle"
  /\ IF CurrentReadable
     THEN LET r == Replay(manifests[currentFile.content[1]])
          IN  IF RecoverAccepts(r) /\ SaveToValid(BuilderSaveTo(r.builder))
              THEN /\ Recovered(r)
                   /\ lastOutcome' = "recovered"
              ELSE /\ RecoverThrewAfterReplay(r, nextFileNumber)
                   /\ lastOutcome' = "recoverFailed"
     ELSE /\ RecoverThrewBeforeReplay(nextFileNumber)
          /\ lastOutcome' = "recoverFailed"
  /\ UNCHANGED <<manifestWriter, diskVars, call, pending, handedOut, reissued, pre,
                 afterCall, allSucceeded, currentRecord, callsBegun, reopens>>
  /\ UNCHANGED <<memVars, dbVars, lockVars, fnVars>>

\* The directories recover is run on: CURRENT complete, without its newline,
\* empty or missing, and a MANIFEST of one or two records, each an edit with
\* any of the log number (below or above the next file number), the previous
\* log number, the next file number and the last sequence, with or without a
\* new table.
RecoverCurrents ==
  {[exists |-> TRUE, content |-> CurrentContent(0)],
   [exists |-> TRUE, content |-> <<0>>],
   [exists |-> TRUE, content |-> <<>>],
   NoCurrentFile}

RecoverEdits ==
  {LET e == [EmptyEdit EXCEPT !.hasLogNumber = log > 0,
                              !.logNumber = log,
                              !.hasPrevLogNumber = hasPrev,
                              !.prevLogNumber = IF hasPrev THEN 4 ELSE 0,
                              !.hasNextFileNumber = hasNext,
                              !.nextFileNumber = IF hasNext THEN 3 ELSE 0,
                              !.hasLastSequence = hasLast,
                              !.lastSequence = IF hasLast THEN 1 ELSE 0]
   IN  IF withFile
       THEN EditAddFile(e, 0, FileMetaData(2, EntrySize,
                                           AppendInternalKey(<<97>>, 1, kTypeValue),
                                           AppendInternalKey(<<97>>, 1, kTypeValue)))
       ELSE e
   : log \in {0, 1, 5}, hasPrev \in BOOLEAN, hasNext \in BOOLEAN, hasLast \in BOOLEAN,
     withFile \in BOOLEAN}

RecoverManifests ==
  UNION {[1..n -> {VersionEditEncode(e) : e \in RecoverEdits}] : n \in 1..MaxManifestRecords}

InitRecover ==
  /\ Constructed
  /\ manifests \in {0 :> records : records \in RecoverManifests}
  /\ currentFile \in RecoverCurrents
  /\ call = NoCall
  /\ pending = {}
  /\ handedOut = {}
  /\ reissued = FALSE
  /\ pre = NoPre
  /\ afterCall = NoAfter
  /\ lastOutcome = "constructed"
  /\ allSucceeded = TRUE
  /\ currentRecord = NoRecord
  /\ callsBegun = 0
  /\ reopens = 0

NextRecover ==
  \/ GetNextFileNumber
  \/ Recover

NextVS ==
  \/ GetNextFileNumber
  \/ SetLastSequence
  \/ \E edit \in EditInputs : LogAndApplyBegin(edit)
  \/ WriteSnapshotOk
  \/ WriteSnapshotFail
  \/ AddRecordOk
  \/ AddRecordFail
  \/ WriteCurrentOpen
  \/ WriteCurrentOpenFail
  \/ WriteCurrentFinish
  \/ WriteCurrentFinishFail
  \/ Install
  \/ Abort
  \/ Reopen

\* ------------------------------------------------------------- the database

\* The user keys of the database specification, and the writes: both keys
\* are put, the first is also deleted.
DbKeys == {<<97>>, <<98>>}

DbWrites == {<<(<<97>>), kTypeValue>>, <<(<<97>>), kTypeDeletion>>, <<(<<98>>), kTypeValue>>}

\* The smallest live snapshot: the oldest pinned sequence, else lastSequence.
SmallestSnapshot ==
  IF snapshots = {} THEN lastSequence
  ELSE CHOOSE s \in snapshots : \A t \in snapshots : s <= t

\* get(k) at the latest sequence.
DbGet(userKey) ==
  GetAt(dbMem, tables, versions[current].files, userKey, lastSequence)

\* Every entry of the input files of a compaction, in internal-key order:
\* what the merging iterator over the inputs yields.
InputEntries(c) ==
  SortKeys(UNION {Range(tables[f.number]) : f \in Range(c.inputs[1]) \cup Range(c.inputs[2])})

MergeStart ==
  [hasCurrentUserKey |-> FALSE, currentUserKey |-> <<>>,
   levelPtrs |-> [l \in Levels |-> 0],
   stop |-> [grandparentIndex |-> 0, seenKey |-> FALSE, overlappedBytes |-> 0],
   outputs |-> <<>>, open |-> <<>>]

\* The current output is closed.
CloseOutput(st) ==
  IF st.open = <<>> THEN st
  ELSE [st EXCEPT !.outputs = Append(@, st.open), !.open = <<>>]

\* One entry of the merge: it is dropped when it repeats the current user
\* key at or below the smallest snapshot, or when it is a deletion at or
\* below the smallest snapshot of a key with nothing in a deeper level;
\* else it is written, after a cutover when shouldStopBefore asks for one
\* and before one when the output has reached the maximal file size.
MergeEntry(c, vfiles, smallest, key, st) ==
  LET userKey == ExtractUserKey(key)
      sequence == ParsedSequence(key)
      repeats == st.hasCurrentUserKey /\ BytewiseCompare(userKey, st.currentUserKey) = 0
      seen == [st EXCEPT !.hasCurrentUserKey = TRUE, !.currentUserKey = userKey]
  IN  IF repeats /\ sequence <= smallest THEN seen
      ELSE IF InternalKeyType(key) = kTypeDeletion /\ sequence <= smallest
      THEN LET base == IsBaseLevelForKey(vfiles, c.level + 2, userKey, st.levelPtrs)
               asked == [seen EXCEPT !.levelPtrs = base.levelPtrs]
           IN  IF base.result THEN asked
               ELSE LET sb == ShouldStopBefore(c.grandparents, key, asked.stop)
                        cut == IF sb.stop THEN CloseOutput(asked) ELSE asked
                        put == [cut EXCEPT !.stop = sb.state, !.open = Append(@, key)]
                    IN  IF Len(put.open) * EntrySize >= MaxFileSize
                        THEN CloseOutput(put) ELSE put
      ELSE LET sb == ShouldStopBefore(c.grandparents, key, seen.stop)
               cut == IF sb.stop THEN CloseOutput(seen) ELSE seen
               put == [cut EXCEPT !.stop = sb.state, !.open = Append(@, key)]
           IN  IF Len(put.open) * EntrySize >= MaxFileSize
               THEN CloseOutput(put) ELSE put

RECURSIVE MergeFrom(_, _, _, _, _, _)
MergeFrom(c, vfiles, smallest, entries, i, st) ==
  IF i > Len(entries) THEN CloseOutput(st).outputs
  ELSE MergeFrom(c, vfiles, smallest, entries, i + 1,
                 MergeEntry(c, vfiles, smallest, entries[i], st))

\* The output tables of the merge of a compaction.
MergeOutputs(c) ==
  MergeFrom(c, versions[c.inputVersion].files, SmallestSnapshot, InputEntries(c), 1, MergeStart)

\* The edit of a compaction whose outputs got the numbers from first on.
RECURSIVE AddOutputs(_, _, _, _, _)
AddOutputs(edit, level, outputs, first, i) ==
  IF i > Len(outputs) THEN edit
  ELSE AddOutputs(EditAddFile(edit, level, TableMeta(first + i - 1, outputs[i])),
                  level, outputs, first, i + 1)

\* logAndApply when every write succeeds, as one step: the snapshot and the
\* record of the edit are appended to MANIFEST-manifestFileNumber, CURRENT
\* is written, the writer is dropped and the new version is current.
LogAndApplyDone(edit) ==
  LET e == PrepareEdit(edit, nextFileNumber')
      files == BuildVersion(e)
      ptrs == BuilderApplyPointers(compactPointers, e)
      id == FreshVersionId(versions)
  IN  /\ compactPointers' = ptrs
      /\ manifests' =
           AddRecord(
             AddRecord(OpenAppend(manifests, manifestFileNumber), manifestFileNumber,
                       VersionEditEncode(WriteSnapshot(ptrs, versions[current].files))),
             manifestFileNumber, VersionEditEncode(e))
      /\ currentFile' = [exists |-> TRUE, content |-> CurrentContent(manifestFileNumber)]
      /\ versions' = AppendVersion(versions, current, id, NewVersion(id, files))
      /\ current' = id
      /\ logNumber' = e.logNumber
      /\ prevLogNumber' = e.prevLogNumber
      /\ UNCHANGED <<manifestFileNumber, manifestWriter>>

\* A write: the next sequence number, the entry in the memtable.
DbWrite(userKey, valueType) ==
  /\ compaction.phase = "none"
  /\ lastSequence < MaxDbSeq
  /\ dbMem' = SortKeys(Range(dbMem) \cup {AppendInternalKey(userKey, lastSequence + 1, valueType)})
  /\ lastSequence' = lastSequence + 1
  /\ UNCHANGED <<tables, snapshots, compaction, dbDone>>
  /\ UNCHANGED <<versions, current, logNumber, prevLogNumber, manifestFileNumber,
                 nextFileNumber, manifestWriter, compactPointers>>
  /\ UNCHANGED <<diskVars, call, histVars, memVars, lockVars, fnVars>>

\* A snapshot pins the last sequence.
DbSnapshot ==
  /\ compaction.phase = "none"
  /\ snapshots = {}
  /\ lastSequence <= MaxSnapshotSeq
  /\ snapshots' = {lastSequence}
  /\ UNCHANGED <<dbMem, tables, compaction, dbDone>>
  /\ UNCHANGED <<vsVars, diskVars, call, histVars, memVars, lockVars, fnVars>>

\* The memtable is written to a new level-0 table, and the edit that adds
\* it is logged and applied.
DbFlush ==
  /\ dbMem # <<>>
  /\ nextFileNumber <= MaxDbFileNumber
  /\ tables' = [n \in (DOMAIN tables) \cup {nextFileNumber} |->
                  IF n = nextFileNumber THEN dbMem ELSE tables[n]]
  /\ nextFileNumber' = nextFileNumber + 1
  /\ LogAndApplyDone(EditAddFile(EmptyEdit, 0, TableMeta(nextFileNumber, dbMem)))
  /\ dbMem' = <<>>
  /\ dbDone' = [dbDone EXCEPT !.flushes = @ + 1]
  /\ UNCHANGED <<snapshots, compaction, lastSequence>>
  /\ UNCHANGED <<call, histVars, memVars, lockVars, fnVars>>

\* What compactRange and pickCompaction do with the inputs they chose: the
\* current version is the input version and gets a reference, the other
\* inputs are set up, the compaction pointer of the level moves.
StartCompaction(level, inputs0) ==
  LET c == SetupOtherInputs(versions[current].files,
             [NewCompaction(level) EXCEPT !.inputs = <<inputs0, (<<>>)>>,
                                          !.inputVersion = current,
                                          !.inputFiles = versions[current].files,
                                          !.pointerBefore = compactPointers[level]])
  IN  /\ compaction' = c
      /\ versions' = VersionRef(versions, current)
      /\ compactPointers' = PointerAfterSetup(compactPointers, c)
      /\ UNCHANGED <<dbMem, tables, snapshots, dbDone>>
      /\ UNCHANGED <<current, logNumber, prevLogNumber, lastSequence,
                     manifestFileNumber, nextFileNumber, manifestWriter>>
      /\ UNCHANGED <<diskVars, call, histVars, memVars, lockVars, fnVars>>

\* compactRange(level, begin, end) when the range meets a file of the level.
CompactRange(level, begin, end) ==
  /\ compaction.phase = "none"
  /\ dbDone.compactions + dbDone.failures < MaxCompactions
  /\ LET inputs0 == CompactRangeInputs(versions[current].files, level,
                      AppendInternalKey(begin, 0, kTypeDeletion),
                      AppendInternalKey(end, 0, kTypeDeletion))
     IN  /\ inputs0 # <<>>
         /\ StartCompaction(level, inputs0)

\* pickCompaction when the score of the current version asks for one.
PickCompaction ==
  /\ compaction.phase = "none"
  /\ dbDone.compactions + dbDone.failures < MaxCompactions
  /\ versions[current].compactionScore.num >= versions[current].compactionScore.den
  /\ StartCompaction(versions[current].compactionLevel,
                     PickInputs(versions[current].files, compactPointers,
                                versions[current].compactionLevel))

\* The compaction is carried out and installed: a single file is moved to
\* the next level, or the inputs are merged into new tables of that level.
RunCompaction ==
  /\ compaction.phase = "picked"
  /\ compaction.hasGrandparents
  /\ LET c == compaction
         outputs == IF IsTrivialMove(c) THEN <<>> ELSE MergeOutputs(c)
         edit == IF IsTrivialMove(c)
                 THEN EditAddFile(EditDeleteFile(c.edit, c.level, c.inputs[1][1].number),
                                  c.level + 1, c.inputs[1][1])
                 ELSE AddOutputs(AddInputDeletions(c, c.edit), c.level + 1, outputs,
                                 nextFileNumber, 1)
     IN  /\ nextFileNumber + Len(outputs) <= MaxDbFileNumber + 1
         /\ tables' = [n \in (DOMAIN tables) \cup
                              {nextFileNumber + i - 1 : i \in 1..Len(outputs)} |->
                         IF n \in DOMAIN tables THEN tables[n]
                         ELSE outputs[n - nextFileNumber + 1]]
         /\ nextFileNumber' = nextFileNumber + Len(outputs)
         /\ LogAndApplyDone(edit)
         /\ compaction' = [c EXCEPT !.phase = "installed", !.edit = edit]
         /\ dbDone' = [dbDone EXCEPT !.compactions = @ + 1,
                                     !.merged = Len(outputs),
                                     !.moved = IsTrivialMove(c)]
  /\ UNCHANGED <<dbMem, snapshots, lastSequence>>
  /\ UNCHANGED <<call, histVars, memVars, lockVars, fnVars>>

\* The compaction fails before its edit is logged: nothing is installed.
FailCompaction ==
  /\ compaction.phase = "picked"
  /\ dbDone.failures < MaxFailures
  /\ compaction' = [compaction EXCEPT !.phase = "failed"]
  /\ dbDone' = [dbDone EXCEPT !.failures = @ + 1]
  /\ UNCHANGED <<dbMem, tables, snapshots>>
  /\ UNCHANGED <<vsVars, diskVars, call, histVars, memVars, lockVars, fnVars>>

\* A slip: releaseInputs keeps its inputVersion and lowers the count again.
ReleaseInputsEveryCall ==
  /\ compaction.phase \in {"installed", "failed", "released"}
  /\ compaction.releases < MaxReleases
  /\ versions' = IF compaction.inputVersion \in DOMAIN versions
                 THEN VersionUnref(versions, compaction.inputVersion) ELSE versions
  /\ compaction' = [compaction EXCEPT !.phase = "released", !.releases = @ + 1]
  /\ UNCHANGED <<dbMem, tables, snapshots, dbDone>>
  /\ UNCHANGED <<current, logNumber, prevLogNumber, lastSequence, manifestFileNumber,
                 nextFileNumber, manifestWriter, compactPointers>>
  /\ UNCHANGED <<diskVars, call, histVars, memVars, lockVars, fnVars>>

\* Compaction.releaseInputs, called once the compaction is installed and,
\* perhaps, again: with an inputVersion the version loses a reference and
\* the field is deleted (0 stands for no version); without, nothing happens.
ReleaseInputs ==
  /\ compaction.phase \in {"installed", "failed", "released"}
  /\ compaction.releases < MaxReleases
  /\ IF compaction.inputVersion # 0
     THEN /\ versions' = VersionUnref(versions, compaction.inputVersion)
          /\ compaction' = [compaction EXCEPT !.inputVersion = 0, !.phase = "released",
                                              !.releases = @ + 1]
     ELSE /\ UNCHANGED versions
          /\ compaction' = [compaction EXCEPT !.releases = @ + 1]
  /\ UNCHANGED <<dbMem, tables, snapshots, dbDone>>
  /\ UNCHANGED <<current, logNumber, prevLogNumber, lastSequence, manifestFileNumber,
                 nextFileNumber, manifestWriter, compactPointers>>
  /\ UNCHANGED <<diskVars, call, histVars, memVars, lockVars, fnVars>>

\* The database lets go of a compaction whose inputs are released.
DropCompaction ==
  /\ compaction.phase = "released"
  /\ compaction' = NoCompaction
  /\ UNCHANGED <<dbMem, tables, snapshots, dbDone>>
  /\ UNCHANGED <<vsVars, diskVars, call, histVars, memVars, lockVars, fnVars>>

InitDB ==
  /\ dbMem = <<>>
  /\ tables = <<>>
  /\ snapshots = {}
  /\ compaction = NoCompaction
  /\ dbDone = [flushes |-> 0, compactions |-> 0, failures |-> 0, merged |-> 0, moved |-> FALSE]

NextDB ==
  \/ \E w \in DbWrites : DbWrite(w[1], w[2])
  \/ DbSnapshot
  \/ DbFlush
  \/ \E level \in 0..MaxCompactLevel, b \in DbKeys, e \in DbKeys :
       BytewiseCompare(b, e) <= 0 /\ CompactRange(level, b, e)
  \/ PickCompaction
  \/ RunCompaction
  \/ FailCompaction
  \/ ReleaseInputs
  \/ DropCompaction

\* ---------------------------------------------------------------- the lock

\* The directory of the database and a copy of it.
Paths == {"db", "copy"}

\* The lockfile_stale settings a database is opened with.
StaleSettings == {1, 2}

NoOpen ==
  [path |-> "db", outcome |-> "none", contested |-> FALSE, held |-> FALSE,
   age |-> 0, stale |-> 0]

\* A slip: a held lock is taken whatever its age.
LockAlwaysAcquirable(lock, now, stale) == TRUE

\* The lock can be taken: nobody holds it, or it is older than lockfile_stale.
LockAcquirable(lock, now, stale) == ~lock.held \/ now - lock.since > stale

\* A database is opened on the path: it acquires LOCK or fails with
\* LockFailure.
LockOpen(path, stale) ==
  /\ lockOpens < MaxOpens
  /\ path = "copy" => copied
  /\ lockOpens' = lockOpens + 1
  /\ lastOpen' = [path |-> path,
                  outcome |-> IF LockAcquirable(locks[path], lockClock, stale)
                              THEN "ok" ELSE "LockFailure",
                  contested |-> \E d \in opened : d.path = path,
                  held |-> locks[path].held,
                  age |-> IF locks[path].held THEN lockClock - locks[path].since ELSE 0,
                  stale |-> stale]
  /\ IF LockAcquirable(locks[path], lockClock, stale)
     THEN /\ locks' = [locks EXCEPT ![path] = [held |-> TRUE, since |-> lockClock,
                                               owner |-> lockOpens + 1]]
          /\ opened' = opened \cup {[id |-> lockOpens + 1, path |-> path]}
     ELSE UNCHANGED <<locks, opened>>
  /\ UNCHANGED <<lockClock, copied>>
  /\ UNCHANGED <<memVars, vsVars, diskVars, call, histVars, dbVars, fnVars>>

\* A database is closed: it releases the lock if it still owns it.
LockClose(d) ==
  /\ d \in opened
  /\ opened' = opened \ {d}
  /\ locks' = IF locks[d.path].held /\ locks[d.path].owner = d.id
              THEN [locks EXCEPT ![d.path].held = FALSE]
              ELSE locks
  /\ UNCHANGED <<lockClock, copied, lockOpens, lastOpen>>
  /\ UNCHANGED <<memVars, vsVars, diskVars, call, histVars, dbVars, fnVars>>

\* Time passes.
LockTick ==
  /\ lockClock < MaxClock
  /\ lockClock' = lockClock + 1
  /\ UNCHANGED <<locks, opened, copied, lockOpens, lastOpen>>
  /\ UNCHANGED <<memVars, vsVars, diskVars, call, histVars, dbVars, fnVars>>

\* The directory is copied to the other path: the files go along, the lock
\* held on the original does not.
LockCopy ==
  /\ ~copied
  /\ copied' = TRUE
  /\ locks' = [locks EXCEPT !["copy"] = [held |-> FALSE, since |-> 0, owner |-> 0]]
  /\ UNCHANGED <<lockClock, opened, lockOpens, lastOpen>>
  /\ UNCHANGED <<memVars, vsVars, diskVars, call, histVars, dbVars, fnVars>>

InitLock ==
  /\ lockClock = 0
  /\ locks = [p \in Paths |-> [held |-> FALSE, since |-> 0, owner |-> 0]]
  /\ opened = {}
  /\ copied = FALSE
  /\ lockOpens = 0
  /\ lastOpen = NoOpen

NextLock ==
  \/ \E p \in Paths, s \in StaleSettings : LockOpen(p, s)
  \/ \E d \in opened : LockClose(d)
  \/ LockTick
  \/ LockCopy

\* ---------------------------------------------------------- specifications

InitMem ==
  /\ memList = <<>> /\ memSize = 0 /\ memAdded = {} /\ memGot = NoGet
  /\ memImmutable = FALSE /\ memThrown = FALSE

NextMem ==
  \/ \E s \in MemSeqs, t \in {kTypeDeletion, kTypeValue}, k \in MemKeys, v \in MemValues :
       MemAdd(s, t, k, v)
  \/ \E k \in MemKeys, s \in 0..(MaxMemSeq + 1) : MemGet(k, s)
  \/ \E next \in BOOLEAN : MemSetImmutable(next)

\* -------------------------------------------------- functions on their own

\* What is left alone when a function is applied on its own.
FnUnchanged == UNCHANGED <<memVars, vsVars, diskVars, call, histVars, dbVars, lockVars>>

\* The internal keys InternalKeyComparator.compare is applied to: new
\* InternalKey(userKey, sequence, type) of these user keys, sequence numbers
\* (of one and of two bytes) and both types.
CompareUserKeys == {<<>>, <<97>>, <<97, 98>>, <<98>>}

CompareSequences == {0, 1, 2, 255, 256}

CompareKeys ==
  [userKey : CompareUserKeys, sequence : CompareSequences,
   type : {kTypeDeletion, kTypeValue}]

InitCompare ==
  /\ fnInput \in [key1 : CompareKeys, key2 : CompareKeys]
  /\ fnOutput = <<>>

\* internalKeyComparator.compare(key1, key2).
Compare ==
  /\ fnOutput = <<>>
  /\ fnOutput' =
       <<InternalKeyCompare(
           AppendInternalKey(fnInput.key1.userKey, fnInput.key1.sequence, fnInput.key1.type),
           AppendInternalKey(fnInput.key2.userKey, fnInput.key2.sequence, fnInput.key2.type))>>
  /\ UNCHANGED fnInput
  /\ FnUnchanged

NextCompare == Compare

\* Sequence numbers up to 2^56 - 1 are written in two halves of 28 bits,
\* sn = hi * 2^28 + lo.  encodeFixed64 of such a number: 8 bytes,
\* little-endian.
EncodeFixed64Wide(sn) ==
  <<sn.lo % 256, (sn.lo \div 2 ^ 8) % 256, (sn.lo \div 2 ^ 16) % 256,
    (sn.lo \div 2 ^ 24) + 16 * (sn.hi % 16),
    (sn.hi \div 2 ^ 4) % 256, (sn.hi \div 2 ^ 12) % 256, (sn.hi \div 2 ^ 20) % 256, 0>>

\* decodeFixed64 of 8 bytes whose last is zero.
DecodeFixed64Wide(buf) ==
  [hi |-> buf[4] \div 16 + buf[5] * 2 ^ 4 + buf[6] * 2 ^ 12 + buf[7] * 2 ^ 20,
   lo |-> buf[1] + buf[2] * 2 ^ 8 + buf[3] * 2 ^ 16 + (buf[4] % 16) * 2 ^ 24]

\* new InternalKey(userKey, sn, valueType), through appendInternalKey.
NewInternalKey(userKey, sn, valueType) ==
  userKey \o FillInt7(EncodeFixed64Wide(sn), valueType)

\* A slip: the tail is read as type first, then 7 bytes of sequence.
ParseInternalKeyTypeFirst(internalKey) ==
  IF Len(internalKey) < 8 THEN [ok |-> FALSE]
  ELSE [ok |-> TRUE,
        userKey |-> ExtractUserKey(internalKey),
        sn |-> DecodeFixed64Wide(SubSeq(KeyTail(internalKey), 2, 8) \o <<0>>),
        valueType |-> KeyTail(internalKey)[1]]

\* parseInternalKey: the user key, the sequence number decoded from the first
\* 7 bytes of the tail, the type from the last byte; false when
\* extractUserKey's assertion fails.
ParseInternalKey(internalKey) ==
  IF Len(internalKey) < 8 THEN [ok |-> FALSE]
  ELSE [ok |-> TRUE,
        userKey |-> ExtractUserKey(internalKey),
        sn |-> DecodeFixed64Wide(SubSeq(KeyTail(internalKey), 1, 7) \o <<0>>),
        valueType |-> InternalKeyType(internalKey)]

\* The keys parseInternalKey is tried on: sequence numbers with either half
\* 0, small, around a byte boundary or full (2^56 - 1 with both halves full).
RoundTripHalves == {0, 1, 15, 16, 255, 256, 2 ^ 28 - 1}

InitInternalKey ==
  /\ fnInput \in [userKey : CompareUserKeys,
                  sn : [hi : RoundTripHalves, lo : RoundTripHalves],
                  type : {kTypeDeletion, kTypeValue}]
  /\ fnOutput = <<>>

\* parseInternalKey(new InternalKey(userKey, sn, type), result).
ParseNewInternalKey ==
  /\ fnOutput = <<>>
  /\ fnOutput' = <<ParseInternalKey(NewInternalKey(fnInput.userKey, fnInput.sn, fnInput.type))>>
  /\ UNCHANGED fnInput
  /\ FnUnchanged

NextInternalKey == ParseNewInternalKey

\* ---- BloomFilter ----
\* A JavaScript number of up to about 48 bits is written in two parts,
\* value = hi * 65536 + lo with lo in 0..65535 and hi of either sign.
WideAdd(a, b) ==
  [hi |-> a.hi + b.hi + (a.lo + b.lo) \div 65536, lo |-> (a.lo + b.lo) % 65536]

\* a % m of JavaScript: the remainder has the sign of a.
WideRemainder(a, m) ==
  LET r == ((a.hi % m) * (65536 % m) + a.lo) % m
  IN  IF a.hi < 0 /\ r # 0 THEN r - m ELSE r

\* (h >> 17) | (h << 15) of JavaScript: both shifts work on the 32-bit
\* signed reading of h and the result is a signed 32-bit number.
\* With the top bit of h set, h >> 17 extends the sign over bits 15..31.
BloomDelta(h) ==
  LET uh == h.hi % 65536
      shiftedHi == (uh % 2) * 32768 + h.lo \div 2
  IN  IF uh >= 32768
        THEN [hi |-> -1, lo |-> 32768 + uh \div 2]
        ELSE [hi |-> IF shiftedHi >= 32768 THEN shiftedHi - 65536 ELSE shiftedHi,
              lo |-> (h.lo % 2) * 32768 + uh \div 2]

\* The bit positions h % bits of the k probes of one key, h += delta between
\* them (h is a JavaScript number and is not wrapped to 32 bits).
RECURSIVE BloomPositions(_, _, _, _)
BloomPositions(h, delta, bits, k) ==
  IF k = 0 THEN {}
  ELSE {WideRemainder(h, bits)} \cup BloomPositions(WideAdd(h, delta), delta, bits, k - 1)

\* BitBuffer: a buffer of `size` bytes read as bits 0 .. 8 * size - 1; `on`
\* holds the positions of the bits that are 1.
BitBufferBits(bitBuffer) == bitBuffer.size * 8

\* BitBuffer.set(position, true): a position outside the buffer is no byte
\* of it, and writing there changes nothing.
BitBufferSet(bitBuffer, positions) ==
  [bitBuffer EXCEPT !.on = @ \cup {x \in positions : x >= 0 /\ x < BitBufferBits(bitBuffer)}]

\* BitBuffer.get(position).
BitBufferGet(bitBuffer, position) == position \in bitBuffer.on

\* BitBuffer.resizeBits(bits): the buffer grows to ceil(bits / 8) bytes; when
\* that is fewer bytes than it has, it is either cut or left (shrinks).
ResizeBits(bitBuffer, bits, shrinks) ==
  LET nextSize == (bits + 7) \div 8
  IN  IF nextSize > bitBuffer.size \/ shrinks
        THEN [size |-> nextSize, on |-> {x \in bitBuffer.on : x < nextSize * 8}]
        ELSE bitBuffer

\* Math.round(bitsPerKey * 0.69).
BloomK(bitsPerKey) == (bitsPerKey * 69 + 50) \div 100

\* new BloomFilter(undefined, bitsPerKey): the buffer is the one byte of k.
NewBloomFilter(bitsPerKey) ==
  [bitBuffer |-> [size |-> (BloomK(bitsPerKey) + 7) \div 8, on |-> {}],
   kByte |-> BloomK(bitsPerKey), kNumber |-> BloomK(bitsPerKey), bitsPerKey |-> bitsPerKey]

\* new BloomFilter(buffer): bitsPerKey is the default 10; a k byte different
\* from the k of 10 bits per key is replaced by it and the bits resized to k.
BloomFilterFromBuffer(buffer, shrinks) ==
  LET k == BloomK(10)
  IN  IF buffer.kByte # k
        THEN [bitBuffer |-> ResizeBits(buffer.bitBuffer, k, shrinks),
              kByte |-> k, kNumber |-> k, bitsPerKey |-> 10]
        ELSE [bitBuffer |-> buffer.bitBuffer, kByte |-> k, kNumber |-> k, bitsPerKey |-> 10]

\* putKeys(keys, n) and the buffer it leaves: the bits, then the k byte.
\* hashOf[key] is bloomHash(key).
PutKeys(filter, keys, n, hashOf) ==
  LET wanted  == IF filter.bitsPerKey * n < 64 THEN 64 ELSE filter.bitsPerKey * n
      resized == ResizeBits(filter.bitBuffer, wanted + 7, FALSE)
      bits    == BitBufferBits(resized)
      positions == UNION {BloomPositions(hashOf[keys[i]], BloomDelta(hashOf[keys[i]]),
                                         bits, filter.kNumber) : i \in 1..n}
  IN  [bitBuffer |-> BitBufferSet(resized, positions), kByte |-> filter.kByte]

\* keyMayMatch(key, bloomFilter).
KeyMayMatch(key, bloomFilter, hashOf, shrinks) ==
  LET filter == BloomFilterFromBuffer(bloomFilter, shrinks)
  IN  IF filter.kNumber > 30 THEN TRUE
      ELSE \A position \in BloomPositions(hashOf[key], BloomDelta(hashOf[key]),
                                          BitBufferBits(filter.bitBuffer), filter.kNumber) :
             BitBufferGet(filter.bitBuffer, position)

\* The keys and the values bloomHash may give them: small ones, one with bit
\* 16 set, one with the top bit set.
BloomKeys == {"a", "b"}
BloomHashes ==
  {[hi |-> 0, lo |-> 1], [hi |-> 2, lo |-> 3], [hi |-> 1, lo |-> 0], [hi |-> 40000, lo |-> 7]}
BloomBitsPerKey == {10, 20, 45}

InitBloom ==
  /\ fnInput \in [bitsPerKey : BloomBitsPerKey,
                  hashOf : [BloomKeys -> BloomHashes],
                  keys : {<<>>} \cup [1..1 -> BloomKeys] \cup [1..2 -> BloomKeys],
                  probe : BloomKeys,
                  shrinks : BOOLEAN]
  /\ fnOutput = <<>>

\* A filter of bitsPerKey is built from keys and then asked about probe.
PutKeysThenMatch ==
  /\ fnOutput = <<>>
  /\ LET built == PutKeys(NewBloomFilter(fnInput.bitsPerKey), fnInput.keys,
                          Len(fnInput.keys), fnInput.hashOf)
     IN  fnOutput' = <<[filter |-> built,
                        match |-> KeyMayMatch(fnInput.probe, built, fnInput.hashOf, fnInput.shrinks)]>>
  /\ UNCHANGED fnInput
  /\ FnUnchanged

NextBloom == PutKeysThenMatch

\* ---- SSTable builder and reader ----
\* block_restart_interval and block_size of the options, scaled down so that
\* tables of a few records have restarts and more than one block.
TableRestartInterval == 2
TableBlockSize == 30

RECURSIVE SharedPrefixFrom(_, _, _)
SharedPrefixFrom(a, b, i) ==
  IF i > Len(a) \/ i > Len(b) \/ a[i] # b[i] THEN i - 1 ELSE SharedPrefixFrom(a, b, i + 1)

EmptyBlock == [entries |-> <<>>, counter |-> 0, lastKey |-> <<>>, size |-> 0]

\* The data-block builder's add: the key is stored as the length it shares
\* with the previous key and the rest; every TableRestartInterval entries a
\* restart stores the key whole.  Three one-byte lengths precede the bytes.
BlockAdd(block, key, value) ==
  LET restart == block.counter >= TableRestartInterval
      shared  == IF restart THEN 0 ELSE SharedPrefixFrom(block.lastKey, key, 1)
      delta   == SubSeq(key, shared + 1, Len(key))
  IN  [entries |-> Append(block.entries, [shared |-> shared, delta |-> delta, value |-> value]),
       counter |-> IF restart THEN 1 ELSE block.counter + 1,
       lastKey |-> key,
       size    |-> block.size + 3 + Len(delta) + Len(value)]

\* Flush of the open block: the block is appended to the file and an index
\* entry (separator key, handle) recorded for it.
TableFlush(builder) ==
  IF builder.block.entries = <<>> THEN builder
  ELSE [builder EXCEPT !.blocks = Append(@, builder.block.entries),
                       !.index = Append(@, [separator |-> builder.block.lastKey,
                                            handle |-> Len(builder.blocks) + 1]),
                       !.block = EmptyBlock]

\* SSTableBuilder.add: keys strictly increasing in internal-key order; the
\* block is flushed when its estimate reaches block_size.
TableAdd(builder, key, value) ==
  IF builder.count > 0 /\ InternalKeyCompare(builder.lastKey, key) >= 0
    THEN [builder EXCEPT !.ok = FALSE]
    ELSE LET added == [builder EXCEPT !.block = BlockAdd(@, key, value),
                                      !.lastKey = key,
                                      !.count = @ + 1]
         IN  IF added.block.size >= TableBlockSize THEN TableFlush(added) ELSE added

RECURSIVE TableAddFrom(_, _, _)
TableAddFrom(builder, records, i) ==
  IF i > Len(records) THEN builder
  ELSE TableAddFrom(TableAdd(builder, records[i].key, records[i].value), records, i + 1)

\* new SSTableBuilder, add of every record, finish.
TableBuild(records) ==
  TableFlush(TableAddFrom([blocks |-> <<>>, index |-> <<>>, block |-> EmptyBlock,
                           lastKey |-> <<>>, count |-> 0, ok |-> TRUE], records, 1))

\* The entries of a data block, decoded from its start: each key is the
\* shared part of the key before it and its own bytes.
RECURSIVE BlockDecodeFrom(_, _, _)
BlockDecodeFrom(entries, i, lastKey) ==
  IF i > Len(entries) THEN <<>>
  ELSE LET key == SubSeq(lastKey, 1, entries[i].shared) \o entries[i].delta
       IN  <<[key |-> key, value |-> entries[i].value]>> \o BlockDecodeFrom(entries, i + 1, key)

Reverse(seq) == [i \in 1..Len(seq) |-> seq[Len(seq) + 1 - i]]

\* A slip: the reverse iterator walks the index backwards but each block
\* forwards.
BlockIteratorForward(entries, reverse) == BlockDecodeFrom(entries, 1, <<>>)

\* The data-block iterator, forwards or backwards.
BlockIterator(entries, reverse) ==
  IF reverse THEN Reverse(BlockDecodeFrom(entries, 1, <<>>)) ELSE BlockDecodeFrom(entries, 1, <<>>)

\* entryIterator(reverse): index entries, and for each the entries of the
\* block its handle names.
RECURSIVE TwoLevelFrom(_, _, _, _)
TwoLevelFrom(table, index, i, reverse) ==
  IF i > Len(index) THEN <<>>
  ELSE BlockIterator(table.blocks[index[i].handle], reverse)
         \o TwoLevelFrom(table, index, i + 1, reverse)

EntryIterator(table, reverse) ==
  TwoLevelFrom(table, IF reverse THEN Reverse(table.index) ELSE table.index, 1, reverse)

\* The records a table is built from: up to MaxTableRecords of them, keys
\* strictly increasing in internal-key order.
MaxTableRecords == 4
TableKeys ==
  {AppendInternalKey(userKey, sequence, kTypeValue) :
     userKey \in {<<97>>, <<97, 98>>, <<98>>}, sequence \in {1, 2}}
TableValues == {<<>>, <<120>>}
TableRecords == [key : TableKeys, value : TableValues]
StrictlyIncreasing(records) ==
  \A i \in 1..(Len(records) - 1) : InternalKeyCompare(records[i].key, records[i + 1].key) < 0

InitTable ==
  /\ fnInput \in {records \in UNION {[1..n -> TableRecords] : n \in 0..MaxTableRecords} :
                    StrictlyIncreasing(records)}
  /\ fnOutput = <<>>

\* The table is built and iterated both ways.
BuildThenIterate ==
  /\ fnOutput = <<>>
  /\ LET table == TableBuild(fnInput)
     IN  fnOutput' = <<[ok |-> table.ok, blocks |-> Len(table.blocks),
                        forward |-> EntryIterator(table, FALSE),
                        backward |-> EntryIterator(table, TRUE)]>>
  /\ UNCHANGED fnInput
  /\ FnUnchanged

NextTable == BuildThenIterate

\* ---- Filename ----
\* A file name is the sequence of its characters.
DigitChars == <<"0", "1", "2", "3", "4", "5", "6", "7", "8", "9">>
ManifestPrefix == <<"M", "A", "N", "I", "F", "E", "S", "T", "-">>
LogSuffix == <<".", "l", "o", "g">>
TableSuffix == <<".", "l", "d", "b">>
TempSuffix == <<".", "d", "b", "t", "m", "p">>

\* String(num) of a non-negative integer.
RECURSIVE NumberString(_)
NumberString(num) ==
  IF num < 10 THEN <<DigitChars[num + 1]>>
  ELSE NumberString(num \div 10) \o <<DigitChars[(num % 10) + 1]>>

\* numberToString: "0" is put in front while the string is shorter than 6.
RECURSIVE PadTo6(_)
PadTo6(str) == IF Len(str) < 6 THEN PadTo6(<<"0">> \o str) ELSE str
NumberToString(num) == PadTo6(NumberString(num))

\* The base names of get*Filename (path.resolve puts the directory in front).
GetLogFilename(number) == NumberToString(number) \o LogSuffix
GetTableFilename(number) == NumberToString(number) \o TableSuffix
GetManifestFilename(number) == ManifestPrefix \o NumberToString(number)
GetTempFilename(number) == NumberString(number) \o TempSuffix

\* Number(str) of a string of decimal digits (0 for the empty string); NaN,
\* written -1, for a string with another character.
RECURSIVE DigitsValue(_, _)
DigitsValue(str, i) ==
  IF i = 0 THEN 0
  ELSE 10 * DigitsValue(str, i - 1) + (CHOOSE d \in 0..9 : DigitChars[d + 1] = str[i])
NaN == 0 - 1
NumberOf(str) ==
  IF \A i \in 1..Len(str) : str[i] \in Range(DigitChars) THEN DigitsValue(str, Len(str)) ELSE NaN

StartsWith(str, prefix) ==
  Len(str) >= Len(prefix) /\ SubSeq(str, 1, Len(prefix)) = prefix

\* filename.split(".")[0]: the characters before the first ".".
BeforeDot(str) ==
  LET dots == {i \in 1..Len(str) : str[i] = "."}
  IN  IF dots = {} THEN str
      ELSE SubSeq(str, 1, (CHOOSE i \in dots : \A j \in dots : i <= j) - 1)

NotInternalFile == [isInternalFile |-> FALSE, number |-> NaN, type |-> "none"]

\* parseFilename of a name that is none of CURRENT, LOCK, LOG, LOG.old.
ParseFilename(filename) ==
  IF StartsWith(filename, ManifestPrefix)
    THEN LET num == NumberOf(SubSeq(filename, Len(ManifestPrefix) + 1, Len(filename)))
         IN  IF num = NaN THEN NotInternalFile
             ELSE [isInternalFile |-> TRUE, number |-> num, type |-> "kDescriptorFile"]
    ELSE LET num == NumberOf(BeforeDot(filename))
             suffix == SubSeq(filename, Len(BeforeDot(filename)) + 1, Len(filename))
         IN  IF num = NaN THEN NotInternalFile
             ELSE IF suffix = LogSuffix
                    THEN [isInternalFile |-> TRUE, number |-> num, type |-> "kLogFile"]
             ELSE IF suffix = TableSuffix
                    THEN [isInternalFile |-> TRUE, number |-> num, type |-> "kTableFile"]
             ELSE IF suffix = TempSuffix
                    THEN [isInternalFile |-> TRUE, number |-> num, type |-> "kTempFile"]
             ELSE NotInternalFile

\* The file numbers names are made of: the small ones, and those around the
\* width of 6 digits.
FilenameNumbers == (1..20) \cup {99999, 100000, 999999, 1000000, 1234567, 2147483647}
FilenameTypes == {"kLogFile", "kTableFile", "kDescriptorFile", "kTempFile"}

FilenameOf(type, number) ==
  IF type = "kLogFile" THEN GetLogFilename(number)
  ELSE IF type = "kTableFile" THEN GetTableFilename(number)
  ELSE IF type = "kDescriptorFile" THEN GetManifestFilename(number)
  ELSE GetTempFilename(number)

InitFilename ==
  /\ fnInput \in [type : FilenameTypes, number : FilenameNumbers]
  /\ fnOutput = <<>>

\* A name is made and parsed.
MakeThenParseFilename ==
  /\ fnOutput = <<>>
  /\ LET name == FilenameOf(fnInput.type, fnInput.number)
     IN  fnOutput' = <<[name |-> name, parsed |-> ParseFilename(name)]>>
  /\ UNCHANGED fnInput
  /\ FnUnchanged

NextFilename == MakeThenParseFilename

\* ---- finalize, needsCompaction and the branch of pickCompaction ----
\* needsCompaction of a current version with this score.
NeedsCompaction(score, fileToCompact) == score.num >= score.den \/ fileToCompact

\* pickCompaction, lines 454-462 and 480-486: the branch taken, and whether
\* the assertions of the size branch hold.
PickBranch(score, level, fileToCompact) ==
  IF score.num >= score.den
    THEN IF level >= 0 /\ level + 1 < kNumLevels THEN "size" ELSE "assert"
  ELSE IF fileToCompact THEN "seek"
  ELSE "none"

\* The versions finalize is applied to: 0, 2, 4 or 5 files at level 0 and,
\* at each other level, files of no bytes, half, all or five quarters of
\* what the level may hold.
FinalizeFile(level, i, fileSize) ==
  FileMetaData(10 * level + i, fileSize,
               AppendInternalKey(<<96 + i>>, 1, kTypeValue),
               AppendInternalKey(<<96 + i>>, 1, kTypeValue))

FinalizeLevelFiles(level, class) ==
  IF level = 0 THEN [i \in 1..class |-> FinalizeFile(0, i, 1)]
  ELSE IF class = 0 THEN <<>>
  ELSE IF class = 2 THEN <<FinalizeFile(level, 1, MaxBytesForLevel(level) \div 2)>>
  ELSE IF class = 4 THEN <<FinalizeFile(level, 1, MaxBytesForLevel(level))>>
  ELSE <<FinalizeFile(level, 1, MaxBytesForLevel(level)),
         FinalizeFile(level, 2, MaxBytesForLevel(level) \div 4)>>

InitFinalize ==
  /\ fnInput \in [classes : [Levels -> {0, 2, 4, 5}], fileToCompact : BOOLEAN]
  /\ fnOutput = <<>>

\* A version of these files is finalized and becomes current;
\* needsCompaction and pickCompaction are asked.
FinalizeThenPick ==
  /\ fnOutput = <<>>
  /\ LET files == [l \in Levels |-> FinalizeLevelFiles(l, fnInput.classes[l])]
         best == Finalize(files)
     IN  fnOutput' = <<[files |-> files,
                        compactionLevel |-> best.level,
                        compactionScore |-> best.score,
                        needsCompaction |-> NeedsCompaction(best.score, fnInput.fileToCompact),
                        branch |-> PickBranch(best.score, best.level, fnInput.fileToCompact)]>>
  /\ UNCHANGED fnInput
  /\ FnUnchanged

NextFinalize == FinalizeThenPick

\* ---- pickCompaction and compactRange on versions of many shapes ----
PickKey(userByte, sequence) == AppendInternalKey(<<userByte>>, sequence, kTypeValue)

\* Key ranges of files.  RangeAB starts at the user key RangeA ends with,
\* RangeB at the user key RangeAB ends with, and RangeCD at the user key
\* RangeBC ends with.
RangeA  == [smallest |-> PickKey(97, 9),  largest |-> PickKey(97, 8)]
RangeAB == [smallest |-> PickKey(97, 7),  largest |-> PickKey(98, 7)]
RangeB  == [smallest |-> PickKey(98, 6),  largest |-> PickKey(98, 6)]
RangeC  == [smallest |-> PickKey(99, 5),  largest |-> PickKey(99, 5)]
RangeD  == [smallest |-> PickKey(100, 4), largest |-> PickKey(100, 4)]
RangeBC == [smallest |-> PickKey(98, 3),  largest |-> PickKey(99, 3)]
RangeCD == [smallest |-> PickKey(99, 2),  largest |-> PickKey(100, 2)]

\* The files of the level compacted, of the level below it and of the level
\* below that, each list in key order.
LevelLayouts ==
  {<<>>, <<RangeA>>, <<RangeA, RangeAB>>, <<RangeAB, RangeC>>, <<RangeA, RangeAB, RangeC>>,
   <<RangeC, RangeD>>, <<RangeAB, RangeC, RangeD>>, <<RangeA, RangeAB, RangeC, RangeD>>,
   <<RangeA, RangeAB, RangeB, RangeC>>}
ParentLayouts == {<<>>, <<RangeBC>>, <<RangeBC, RangeCD>>, <<RangeD>>}
GrandparentLayouts == {<<>>, <<RangeAB, RangeC>>, <<RangeA, RangeAB, RangeC, RangeD>>}

\* File sizes in MiB, around maxFileSize and the limits derived from it.
LevelSizes == {EntrySize, (3 * MaxFileSize) \div 4, MaxFileSize, 15 * MaxFileSize}
SmallSize == EntrySize
GrandparentSizes == {EntrySize, 6 * MaxFileSize}

\* The levels the first of the three populated levels is put at.
BaseLevels == {0, 1, kNumLevels - 3, kNumLevels - 2}

MakeFiles(level, layout, fileSize) ==
  [i \in 1..Len(layout) |->
     FileMetaData(10 * level + i, fileSize, layout[i].smallest, layout[i].largest)]

PickVersionFiles(in) ==
  [l \in Levels |->
     IF l = in.base THEN MakeFiles(l, in.layout0, in.size0)
     ELSE IF l = in.base + 1 THEN MakeFiles(l, in.layout1, SmallSize)
     ELSE IF l = in.base + 2 THEN MakeFiles(l, in.layout2, in.size2)
     ELSE <<>>]

InitPick ==
  /\ fnInput \in [base : BaseLevels,
                  layout0 : LevelLayouts, size0 : LevelSizes,
                  layout1 : ParentLayouts,
                  layout2 : GrandparentLayouts, size2 : GrandparentSizes,
                  pointer : {NoKey, RangeA.largest, RangeD.largest},
                  seek : BOOLEAN]
  /\ fnOutput = <<>>

\* version.fileToCompact, when the version has one: the first file of the
\* base level.
FileToCompact(in) == in.seek /\ in.layout0 # <<>>

NotAsked == [asked |-> FALSE, threw |-> FALSE, result |-> FALSE]

NotDeleted == [asked |-> FALSE, edit |-> EmptyEdit]

NoResult(branch, level) ==
  [branch |-> branch, level |-> level, range |-> <<>>, seed |-> NoFile, given |-> <<>>,
   c |-> NoCompaction, trivial |-> NotAsked, stop |-> NotAsked,
   stopState |-> MergeStart.stop, deleted |-> NotDeleted]

\* The compaction made of the starting files of a level: new Compaction,
\* inputVersion, inputs[0], setupOtherInputs.
CompactionOf(files, branch, level, seed, given) ==
  [branch |-> branch, level |-> level, range |-> <<>>, seed |-> seed, given |-> given,
   c |-> SetupOtherInputs(files, [NewCompaction(level) EXCEPT
                                    !.inputs = <<given, (<<>>)>>,
                                    !.inputVersion = 1,
                                    !.inputFiles = files]),
   trivial |-> NotAsked, stop |-> NotAsked, stopState |-> MergeStart.stop,
   deleted |-> NotDeleted]

\* pickCompaction() on the version.
PickCompactionOn(in) ==
  LET files == PickVersionFiles(in)
      best == Finalize(files)
      branch == PickBranch(best.score, best.level, FileToCompact(in))
      ptrs == [l \in Levels |-> in.pointer]
  IN  IF branch = "size"
        THEN CompactionOf(files, branch, best.level, PickSeed(files, ptrs, best.level),
                          PickInputs(files, ptrs, best.level))
      ELSE IF branch = "seek"
        THEN CompactionOf(files, branch, in.base, NoFile,
                          PickLevel0(files, in.base, files[in.base][1]))
      ELSE NoResult(branch, best.level)

\* compactRange(level, begin, end) on the version.
CompactRangeOn(in, level, begin, end) ==
  LET files == PickVersionFiles(in)
      given == CompactRangeInputs(files, level,
                 AppendInternalKey(<<begin>>, 0, kTypeDeletion),
                 AppendInternalKey(<<end>>, 0, kTypeDeletion))
  IN  [(IF given = <<>> THEN NoResult("empty", level)
        ELSE CompactionOf(files, "range", level, NoFile, given))
       EXCEPT !.range = <<begin, end>>]

PickCompactionFn ==
  /\ fnOutput = <<>>
  /\ fnOutput' = <<PickCompactionOn(fnInput)>>
  /\ UNCHANGED fnInput
  /\ FnUnchanged

CompactRangeFn(begin, end) ==
  /\ fnOutput = <<>>
  /\ fnOutput' = <<CompactRangeOn(fnInput, fnInput.base, begin, end)>>
  /\ UNCHANGED fnInput
  /\ FnUnchanged

\* isTrivialMove() on the compaction returned.
AskTrivialMove ==
  /\ fnOutput # <<>>
  /\ fnOutput[1].c.phase = "picked"
  /\ ~fnOutput[1].trivial.asked
  /\ fnOutput' = <<[fnOutput[1] EXCEPT !.trivial = [asked |-> TRUE] @@ IsTrivialMoveCall(fnOutput[1].c)]>>
  /\ UNCHANGED fnInput
  /\ FnUnchanged

\* shouldStopBefore(key) on the compaction returned, for the first key of
\* its inputs.
AskShouldStop ==
  /\ fnOutput # <<>>
  /\ fnOutput[1].c.phase = "picked"
  /\ fnOutput[1].trivial.asked
  /\ ~fnOutput[1].stop.asked
  /\ LET c == fnOutput[1].c
         r == ShouldStopBeforeCall(c, GetRange(c.inputs[1] \o c.inputs[2]).smallest,
                                   fnOutput[1].stopState)
     IN  fnOutput' = <<[fnOutput[1] EXCEPT
                          !.stop = [asked |-> TRUE, threw |-> r.threw, result |-> r.stop],
                          !.stopState = r.state]>>
  /\ UNCHANGED fnInput
  /\ FnUnchanged

\* addInputDeletions(edit) on the compaction returned, with its own edit.
AskInputDeletions ==
  /\ fnOutput # <<>>
  /\ fnOutput[1].c.phase = "picked"
  /\ fnOutput[1].stop.asked
  /\ ~fnOutput[1].deleted.asked
  /\ fnOutput' = <<[fnOutput[1] EXCEPT
                       !.deleted = [asked |-> TRUE,
                                    edit |-> AddInputDeletions(fnOutput[1].c, fnOutput[1].c.edit)]]>>
  /\ UNCHANGED fnInput
  /\ FnUnchanged

NextPick ==
  \/ PickCompactionFn
  \/ \E r \in {<<97, 97>>, <<97, 100>>, <<99, 100>>} : CompactRangeFn(r[1], r[2])
  \/ AskTrivialMove
  \/ AskShouldStop
  \/ AskInputDeletions

\* ---- runs of shouldStopBefore ----
MaxGrandparents == 4

\* File sizes in MiB, below and above maxGrandParentOverlapBytes.
StopSizes == {4 * MaxFileSize, 6 * MaxFileSize, 11 * MaxFileSize}

\* The i-th grandparent holds the one user key 96 + 2i.
StopGrandparents(sizes) ==
  [i \in 1..Len(sizes) |->
     FileMetaData(i, sizes[i], PickKey(96 + 2 * i, 5), PickKey(96 + 2 * i, 5))]

\* The keys of the merge: between the grandparents, and their largest keys.
StopKeys == {PickKey(u, 5) : u \in 97..(97 + 2 * MaxGrandparents)}

\* The compaction as setupOtherInputs leaves it: at level 4 the grandparents
\* are files of level 6, at level 5 they are not set.
StopCompaction(in) ==
  [NewCompaction(in.level) EXCEPT
     !.hasGrandparents = in.level + 2 < kNumLevels,
     !.grandparents = IF in.level + 2 < kNumLevels THEN StopGrandparents(in.sizes) ELSE <<>>]

InitStop ==
  /\ fnInput \in [level : {kNumLevels - 3},
                  sizes : UNION {[1..n -> StopSizes] : n \in 0..MaxGrandparents}]
                 \cup [level : {kNumLevels - 2}, sizes : {<<>>}]
  /\ fnOutput = [state |-> MergeStart.stop, calls |-> <<>>]

\* shouldStopBefore(key), for a key after the keys of the calls before.
ShouldStopCall(key) ==
  /\ \A n \in 1..Len(fnOutput.calls) :
       /\ ~fnOutput.calls[n].threw
       /\ InternalKeyCompare(key, fnOutput.calls[n].key) > 0
  /\ LET r == ShouldStopBeforeCall(StopCompaction(fnInput), key, fnOutput.state)
     IN  fnOutput' = [state |-> r.state,
                      calls |-> Append(fnOutput.calls,
                                  [key |-> key, stop |-> r.stop, threw |-> r.threw,
                                   state |-> r.state])]
  /\ UNCHANGED fnInput
  /\ FnUnchanged

NextStop == \E key \in StopKeys : ShouldStopCall(key)

\* ---- runs of isBaseLevelForKey ----
MaxBaseCalls == 3

BaseRange(first, last) == [smallest |-> PickKey(first, 5), largest |-> PickKey(last, 5)]

\* The files of a level below the outputs: none, one, two apart, two that
\* meet in a user key, two side by side.
BaseLayouts ==
  {<<>>, <<BaseRange(98, 98)>>, <<BaseRange(98, 99), BaseRange(101, 101)>>,
   <<BaseRange(97, 98), [smallest |-> PickKey(98, 4), largest |-> PickKey(100, 4)]>>,
   <<BaseRange(99, 99), BaseRange(100, 101)>>}

BaseUserKeys == {<<u>> : u \in 97..102}

\* The input version: one file over every key at level + 1, and the drawn
\* files at the last two levels.
BaseVersionFiles(in) ==
  [l \in Levels |->
     IF l = in.level + 1 /\ l < kNumLevels - 2 THEN MakeFiles(l, <<BaseRange(97, 102)>>, SmallSize)
     ELSE IF l = kNumLevels - 2 THEN MakeFiles(l, in.layout5, SmallSize)
     ELSE IF l = kNumLevels - 1 THEN MakeFiles(l, in.layout6, SmallSize)
     ELSE <<>>]

InitBase ==
  /\ fnInput \in [level : {0, kNumLevels - 4, kNumLevels - 3, kNumLevels - 2},
                  layout5 : BaseLayouts, layout6 : BaseLayouts]
  /\ fnOutput = [levelPtrs |-> [l \in Levels |-> 0], calls |-> <<>>]

\* isBaseLevelForKey(userKey), for a key not before the keys of the calls
\* before.
IsBaseLevelCall(userKey) ==
  /\ Len(fnOutput.calls) < MaxBaseCalls
  /\ \A n \in 1..Len(fnOutput.calls) : BytewiseCompare(userKey, fnOutput.calls[n].userKey) >= 0
  /\ LET r == IsBaseLevelForKey(BaseVersionFiles(fnInput), fnInput.level + 2, userKey,
                                fnOutput.levelPtrs)
     IN  fnOutput' = [levelPtrs |-> r.levelPtrs,
                      calls |-> Append(fnOutput.calls,
                                  [userKey |-> userKey, result |-> r.result,
                                   levelPtrs |-> r.levelPtrs])]
  /\ UNCHANGED fnInput
  /\ FnUnchanged

NextBase == \E userKey \in BaseUserKeys : IsBaseLevelCall(userKey)

\* ---- two logAndApply calls on one VersionSet ----
OverlapFile(number, userByte) ==
  FileMetaData(number, EntrySize, PickKey(userByte, 1), PickKey(userByte, 1))

\* The version the calls start from: two tables at level 0.
OverlapBase == [l \in Levels |-> IF l = 0 THEN <<OverlapFile(4, 100), OverlapFile(1, 97)>> ELSE <<>>]

\* The edits of the two callers: a new level-0 table, or the move of a
\* table of their own to level 1.
OverlapEdits ==
  [i \in 1..2 |->
     {EditAddFile(EmptyEdit, 0, OverlapFile(i + 4, 97 + i)),
      EditAddFile(EditDeleteFile(EmptyEdit, 0, 3 * i - 2), 1, OverlapFile(3 * i - 2, 94 + 3 * i))}]

NoOverlapCall == [pc |-> "idle", created |-> FALSE, files |-> EmptyFiles, logNumber |-> 0,
                  overlapped |-> FALSE]

InitOverlap ==
  /\ fnInput \in [1..2 -> OverlapEdits[1] \cup OverlapEdits[2]]
  /\ fnInput[1] \in OverlapEdits[1]
  /\ fnInput[2] \in OverlapEdits[2]
  /\ fnOutput = [current |-> OverlapBase, logNumber |-> 0, writer |-> FALSE,
                 manifest |-> <<>>, currentWritten |-> 0,
                 calls |-> [i \in 1..2 |-> NoOverlapCall]]

InFlight(c) == c.pc \notin {"idle", "done", "threw"}

OverlapStep(i, c) ==
  /\ fnOutput.calls[i].pc = c
  /\ UNCHANGED fnInput
  /\ FnUnchanged

\* logAndApply, lines 295-325: the edit takes the log number, the version is
\* built from the version that is current now, and the call waits for
\* env.open when there is no manifest writer, for status.ok() otherwise.
OverlapBegin(i) ==
  /\ OverlapStep(i, "idle")
  /\ fnOutput' = [fnOutput EXCEPT !.calls[i] =
       [pc |-> IF fnOutput.writer THEN "record" ELSE "opening",
        created |-> ~fnOutput.writer,
        files |-> BuilderSaveTo(BuilderApply(NewBuilder(fnOutput.current), fnInput[i])),
        logNumber |-> fnOutput.logNumber,
        overlapped |-> \E j \in 1..2 : InFlight(fnOutput.calls[j])]]

\* lines 326-333: the writer is assigned and the snapshot written.
OverlapOpened(i) ==
  /\ OverlapStep(i, "opening")
  /\ fnOutput' = [fnOutput EXCEPT !.writer = TRUE,
                                  !.manifest = Append(@, <<"snapshot", i>>),
                                  !.calls[i].pc = "record"]

\* lines 335-338: this.manifestWriter.addRecord(record); it throws when
\* another call has deleted the writer.
OverlapAddRecord(i) ==
  /\ OverlapStep(i, "record")
  /\ fnOutput' = IF fnOutput.writer
                 THEN [fnOutput EXCEPT !.manifest = Append(@, <<"edit", i>>),
                                       !.calls[i].pc = "current"]
                 ELSE [fnOutput EXCEPT !.calls[i].pc = "threw"]

\* lines 343-349: CURRENT is written by the call that opened the manifest.
OverlapWriteCurrent(i) ==
  /\ OverlapStep(i, "current")
  /\ fnOutput' = [fnOutput EXCEPT
                    !.currentWritten = IF fnOutput.calls[i].created THEN @ + 1 ELSE @,
                    !.calls[i].pc = "install"]

\* appendVersion(ver) and the log number, lines 360-362.
OverlapInstalled(out, i) ==
  [out EXCEPT !.current = out.calls[i].files,
              !.logNumber = out.calls[i].logNumber,
              !.calls[i].pc = "done"]

\* lines 352-362: the call that opened the manifest waits for
\* this.manifestWriter.close(), which throws when the writer is deleted;
\* the other call installs its version.
OverlapFinish(i) ==
  /\ OverlapStep(i, "install")
  /\ fnOutput' = IF ~fnOutput.calls[i].created THEN OverlapInstalled(fnOutput, i)
                 ELSE IF fnOutput.writer THEN [fnOutput EXCEPT !.calls[i].pc = "closing"]
                 ELSE [fnOutput EXCEPT !.calls[i].pc = "threw"]

\* lines 356-362: the writer is deleted and the version installed.
OverlapClosed(i) ==
  /\ OverlapStep(i, "closing")
  /\ fnOutput' = OverlapInstalled([fnOutput EXCEPT !.writer = FALSE], i)

NextOverlap ==
  \E i \in 1..2 :
    \/ OverlapBegin(i)
    \/ OverlapOpened(i)
    \/ OverlapAddRecord(i)
    \/ OverlapWriteCurrent(i)
    \/ OverlapFinish(i)
    \/ OverlapClosed(i)

\* ---- InternalKeyComparator.findShortestSeparator / findShortSuccessor ----
\* kMaxSequenceNumber, (1n << 56n) - 1n, in two halves of 28 bits.
kMaxSequenceNumber == [hi |-> 2 ^ 28 - 1, lo |-> 2 ^ 28 - 1]

\* packSequenceAndType: (seq << 8) | t, written as seq * 256 + t.
PackSequenceAndType(seq, t) == [seq |-> seq, t |-> t]

\* encodeFixed64 of a packed number: little-endian, so the type is the first
\* byte and the 7 bytes of the sequence number follow it.
EncodeFixed64Packed(packed) ==
  <<packed.t>> \o SubSeq(EncodeFixed64Wide(packed.seq), 1, 7)

\* The length of the common prefix of two user keys.
RECURSIVE DiffIndexFrom(_, _, _)
DiffIndexFrom(a, b, i) ==
  IF i <= Len(a) /\ i <= Len(b) /\ a[i] = b[i] THEN DiffIndexFrom(a, b, i + 1)
  ELSE i - 1

\* The user comparator's findShortestSeparator: past the common prefix, when
\* the byte of start can be raised by one and stay below the byte of limit,
\* start is cut after that byte, raised; otherwise start is left alone.
BytewiseShortestSeparator(start, limit) ==
  LET d == DiffIndexFrom(start, limit, 1) + 1
  IN  IF d > Len(start) \/ d > Len(limit) THEN start
      ELSE IF start[d] < 255 /\ start[d] + 1 < limit[d]
           THEN SubSeq(start, 1, d - 1) \o <<start[d] + 1>>
      ELSE start

\* The user comparator's findShortSuccessor: the first byte that is not 255
\* is raised by one and the key is cut after it; a key of 255s is left alone.
BytewiseShortSuccessor(key) ==
  LET raisable == {i \in 1..Len(key) : key[i] # 255}
  IN  IF raisable = {} THEN key
      ELSE LET i == CHOOSE j \in raisable : \A k \in raisable : j <= k
           IN  SubSeq(key, 1, i - 1) \o <<key[i] + 1>>

\* The tail findShortestSeparator and findShortSuccessor put behind a
\* shortened user key.
SeparatorTail ==
  EncodeFixed64Packed(PackSequenceAndType(kMaxSequenceNumber, kValueTypeForSeek))

\* InternalKeyComparator.findShortestSeparator: start after the call.
FindShortestSeparator(start, limit) ==
  LET userStart == ExtractUserKey(start)
      tmp == BytewiseShortestSeparator(userStart, ExtractUserKey(limit))
  IN  IF Len(tmp) < Len(userStart) /\ BytewiseCompare(userStart, tmp) < 0
      THEN tmp \o SeparatorTail
      ELSE start

\* InternalKeyComparator.findShortSuccessor: key after the call.
FindShortSuccessor(key) ==
  LET userKey == ExtractUserKey(key)
      tmp == BytewiseShortSuccessor(userKey)
  IN  IF Len(tmp) < Len(userKey) /\ BytewiseCompare(userKey, tmp) < 0
      THEN tmp \o SeparatorTail
      ELSE key

\* The keys the two functions are applied to: the last key of a block and
\* the first key of the next, start before limit.
SeparatorUserKeys ==
  {<<97>>, <<97, 98>>, <<97, 98, 99>>, <<97, 255>>, <<99>>, <<99, 100>>,
   <<255>>, <<255, 255>>, <<255, 97, 98>>}

SeparatorSequences == {[hi |-> 0, lo |-> 1], [hi |-> 1, lo |-> 256], kMaxSequenceNumber}

SeparatorKeys ==
  {NewInternalKey(u, s, t) : u \in SeparatorUserKeys, s \in SeparatorSequences,
                             t \in {kTypeDeletion, kTypeValue}}

InitSeparator ==
  /\ fnInput \in {in \in [start : SeparatorKeys, limit : SeparatorKeys] :
                    InternalKeyCompare(in.start, in.limit) < 0}
  /\ fnOutput = <<>>

\* What a call left in its first argument, and what parseInternalKey reads
\* from it.
SeparatorResult(fn, key) ==
  [fn |-> fn, key |-> key, parsed |-> ParseInternalKey(key)]

\* comparator.findShortestSeparator(start, limit).
ShortestSeparatorCall ==
  /\ fnOutput = <<>>
  /\ fnOutput' = <<SeparatorResult("findShortestSeparator",
                                   FindShortestSeparator(fnInput.start, fnInput.limit))>>
  /\ UNCHANGED fnInput
  /\ FnUnchanged

\* comparator.findShortSuccessor(start).
ShortSuccessorCall ==
  /\ fnOutput = <<>>
  /\ fnOutput' = <<SeparatorResult("findShortSuccessor", FindShortSuccessor(fnInput.start))>>
  /\ UNCHANGED fnInput
  /\ FnUnchanged

NextSeparator == ShortestSeparatorCall \/ ShortSuccessorCall

\* ---- InternalKey and InternalKeyBuilder ----
\* new Slice(): no bytes.
EmptySlice == <<>>

\* The InternalKey constructor on its list of arguments: the buffer is built
\* by appendInternalKey only when user key, sequence number and type are all
\* given; otherwise it stays that of super(), an empty Slice.
InternalKeyConstructor(args) ==
  IF Len(args) = 3 THEN NewInternalKey(args[1], args[2], args[3]) ELSE EmptySlice

\* InternalKeyBuilder.build: the user key and the tail are put together in a
\* Slice, and the key returned is new InternalKey(slice), made of that one
\* argument.
InternalKeyBuilderBuild(sequence, valueType, key) ==
  LET slice == key \o FillInt7(EncodeFixed64Wide(sequence), valueType)
  IN  InternalKeyConstructor(<<slice>>)

\* decodeFixed32: the first 4 bytes of the buffer, little-endian; the 32-bit
\* number is written in halves like the sequence numbers, hi below 16.
DecodeFixed32Wide(buf) ==
  [hi |-> buf[4] \div 16,
   lo |-> buf[1] + buf[2] * 2 ^ 8 + buf[3] * 2 ^ 16 + (buf[4] % 16) * 2 ^ 24]

\* InternalKey.sequence: the first 7 bytes of the tail are copied into 8 zero
\* bytes, and decodeFixed32 reads them.
InternalKeySequence(ikey) ==
  DecodeFixed32Wide(SubSeq(KeyTail(ikey), 1, 7) \o <<0>>)

\* build(sn, type, userKey) next to new InternalKey(userKey, sn, type).
BuildCall ==
  /\ fnOutput = <<>>
  /\ fnOutput' = <<[fn |-> "build",
                    built |-> InternalKeyBuilderBuild(fnInput.sn, fnInput.type, fnInput.userKey),
                    made |-> InternalKeyConstructor(<<fnInput.userKey, fnInput.sn, fnInput.type>>)]>>
  /\ UNCHANGED fnInput
  /\ FnUnchanged

\* new InternalKey(userKey, sn, type).sequence.
SequenceCall ==
  /\ fnOutput = <<>>
  /\ fnOutput' = <<[fn |-> "sequence",
                    sequence |-> InternalKeySequence(
                      InternalKeyConstructor(<<fnInput.userKey, fnInput.sn, fnInput.type>>))]>>
  /\ UNCHANGED fnInput
  /\ FnUnchanged

NextKeyClass == BuildCall \/ SequenceCall

\* No function is applied on its own.
InitFn == fnInput = <<>> /\ fnOutput = <<>>

Init == InitMem /\ InitVS /\ InitDB /\ InitLock /\ InitFn

\* The MemTable alone.
SpecMem == Init /\ [][NextMem]_vars

\* The VersionSet and its directory.
Spec == Init /\ [][NextVS]_vars

\* recover on a directory written by others.
RecoverStart == InitMem /\ InitRecover /\ InitDB /\ InitLock /\ InitFn
SpecRecover == RecoverStart /\ [][NextRecover]_vars

\* The database: writes, flushes, snapshots and compactions.
SpecDB == Init /\ [][NextDB]_vars

\* The LOCK file.
SpecLock == Init /\ [][NextLock]_vars

\* parseInternalKey on a new InternalKey.
InternalKeyStart == InitMem /\ InitVS /\ InitDB /\ InitLock /\ InitInternalKey
SpecInternalKey == InternalKeyStart /\ [][NextInternalKey]_vars

\* A Bloom filter built and asked.
BloomStart == InitMem /\ InitVS /\ InitDB /\ InitLock /\ InitBloom
SpecBloom == BloomStart /\ [][NextBloom]_vars

\* An SSTable built and iterated.
TableStart == InitMem /\ InitVS /\ InitDB /\ InitLock /\ InitTable
SpecTable == TableStart /\ [][NextTable]_vars

\* A file name made and parsed.
FilenameStart == InitMem /\ InitVS /\ InitDB /\ InitLock /\ InitFilename
SpecFilename == FilenameStart /\ [][NextFilename]_vars

\* finalize on versions of every shape of scores.
FinalizeStart == InitMem /\ InitVS /\ InitDB /\ InitLock /\ InitFinalize
SpecFinalize == FinalizeStart /\ [][NextFinalize]_vars

\* pickCompaction and compactRange on versions of many shapes.
PickStart == InitMem /\ InitVS /\ InitDB /\ InitLock /\ InitPick
SpecPick == PickStart /\ [][NextPick]_vars

\* Runs of shouldStopBefore over the keys of a merge.
StopStart == InitMem /\ InitVS /\ InitDB /\ InitLock /\ InitStop
SpecStop == StopStart /\ [][NextStop]_vars

\* Runs of isBaseLevelForKey over the user keys of a merge.
BaseStart == InitMem /\ InitVS /\ InitDB /\ InitLock /\ InitBase
SpecBase == BaseStart /\ [][NextBase]_vars

\* Two logAndApply calls on one VersionSet, step by step.
OverlapStart == InitMem /\ InitVS /\ InitDB /\ InitLock /\ InitOverlap
SpecOverlap == OverlapStart /\ [][NextOverlap]_vars

\* findShortestSeparator and findShortSuccessor on pairs of internal keys.
SeparatorStart == InitMem /\ InitVS /\ InitDB /\ InitLock /\ InitSeparator
SpecSeparator == SeparatorStart /\ [][NextSeparator]_vars

\* InternalKeyBuilder.build and the sequence getter on new internal keys.
KeyClassStart == InitMem /\ InitVS /\ InitDB /\ InitLock /\ InitInternalKey
SpecKeyClass == KeyClassStart /\ [][NextKeyClass]_vars

\* InternalKeyComparator.compare on its own.
CompareStart == InitMem /\ InitVS /\ InitDB /\ InitLock /\ InitCompare
SpecCompare == CompareStart /\ [][NextCompare]_vars

\* ------------------------------------------------------------------ claims

\* What the history says a lookup of (userKey, sequence) finds: the entry of
\* that user key with the largest sequence number <= sequence.
MemExpected(userKey, sequence) ==
  LET cands == {e \in memAdded : e.key = userKey /\ e.sequence <= sequence}
  IN  IF cands = {} THEN NotFound
      ELSE LET e == CHOOSE x \in cands : \A y \in cands : y.sequence <= x.sequence
           IN  [found |-> TRUE, type |-> e.valueType, value |-> e.value]

\* C1: after any adds with distinct internal keys, get(LookupKey(k, s))
\* returns the type and value of the entry of user key k with the largest
\* sequence number <= s, nothing when there is none, whatever the entries of
\* other user keys are.
C1_MemTableGetNewestVisible ==
  /\ \A k \in MemKeys, s \in 0..(MaxMemSeq + 1) :
       MemTableGet(memList, k, s) = MemExpected(k, s)
  /\ memGot # NoGet => memGot.result = MemExpected(memGot.userKey, memGot.sequence)

\* A get that found an entry while a newer entry of the same user key (above
\* the lookup sequence) and an entry of another user key were present.
C1_Witness ==
  /\ memGot # NoGet
  /\ memGot.result.found
  /\ \E e \in memAdded : e.key = memGot.userKey /\ e.sequence > memGot.sequence
  /\ \E e \in memAdded : e.key # memGot.userKey

\* The file numbers of a version.
FileNumbers(vfiles) == UNION {{f.number : f \in Range(vfiles[l])} : l \in Levels}

\* The entries of the files of a level.
LevelEntries(tbls, files) == UNION {Range(tbls[f.number]) : f \in Range(files)}

\* The installed compaction wrote fewer entries than it read.
CompactionDropped ==
  Cardinality(LevelEntries(tables, compaction.inputs[1] \o compaction.inputs[2])) >
    Cardinality(UNION {Range(tables[compaction.edit.newFiles[i].file.number]) :
                         i \in 1..Len(compaction.edit.newFiles)})

\* C2: the step that carries out and installs a compaction, started by
\* compactRange or by pickCompaction, leaves get(k) unchanged for every user
\* key k, and every input entry with a sequence number above the smallest
\* live snapshot is in a file of the output level afterwards.
C2_CompactionPreservesGet ==
  [][dbDone'.compactions # dbDone.compactions =>
       /\ \A k \in DbKeys :
            GetAt(dbMem', tables', versions'[current'].files, k, lastSequence') = DbGet(k)
       /\ \A key \in Range(InputEntries(compaction)) :
            ParsedSequence(key) > SmallestSnapshot =>
              key \in LevelEntries(tables', versions'[current'].files[compaction.level + 1])]_vars

\* A merge was installed that dropped entries, among its inputs a deletion,
\* while a key still reads as a value and another one as deleted.
C2_Witness ==
  /\ compaction.phase = "installed"
  /\ ~dbDone.moved
  /\ CompactionDropped
  /\ \E key \in Range(InputEntries(compaction)) : InternalKeyType(key) = kTypeDeletion
  /\ \E k \in DbKeys : DbGet(k).found
  /\ \E k \in DbKeys : ~DbGet(k).found

\* The files of a level are in the order of their smallest internal keys.
LevelSorted(files) ==
  \A i \in 1..(Len(files) - 1) : InternalKeyCompare(files[i].smallest, files[i + 1].smallest) < 0

\* The user-key ranges of the files of a level do not meet.
LevelUserKeyDisjoint(files) ==
  \A i \in 1..(Len(files) - 1) :
    BytewiseCompare(ExtractUserKey(files[i].largest), ExtractUserKey(files[i + 1].smallest)) < 0

\* C3: the current version has at every level >= 1 its files sorted by
\* smallest internal key, each file ending, in internal-key order, before
\* the next one begins.
C3_LevelsSortedAndDisjoint ==
  \A l \in Levels \ {0} :
    /\ LevelSorted(versions[current].files[l])
    /\ LevelDisjoint(versions[current].files[l])

\* A merge left two files of a level >= 1 that meet in one user key.
C3_Witness ==
  /\ dbDone.merged >= 2
  /\ \E l \in Levels \ {0} : ~LevelUserKeyDisjoint(versions[current].files[l])

\* C3 as stated: the files of every level >= 1 are sorted by smallest
\* internal key and their user-key ranges are pairwise disjoint.
C3_LevelsUserKeyDisjoint ==
  \A l \in Levels \ {0} :
    /\ LevelSorted(versions[current].files[l])
    /\ LevelUserKeyDisjoint(versions[current].files[l])

\* C4: when every logAndApply call so far succeeded, a fresh VersionSet that
\* runs recover() on the directory gets a current version with the files
\* (number, size, smallest, largest, level by level), the lastSequence and
\* the logNumber that the original VersionSet had after its last call.
C4_RecoverRoundTrip ==
  [][(reopens' # reopens /\ allSucceeded' /\ afterCall.calls > 0) =>
       /\ lastOutcome' = "recovered"
       /\ versions'[current'].files = afterCall.files
       /\ lastSequence' = afterCall.lastSequence
       /\ logNumber' = afterCall.logNumber]_vars

\* A recovery after two successful calls, the second of them made by a
\* recovered VersionSet, with a file below level 0 and a log number set.
C4_Witness ==
  /\ lastOutcome = "recovered"
  /\ allSucceeded
  /\ afterCall.calls >= 2
  /\ reopens = 2
  /\ \E l \in Levels \ {0} : versions[current].files[l] # <<>>
  /\ logNumber > 0

\* C5: every number getNextFileNumber returns is greater than every number
\* it returned before, in this life of the directory or an earlier one, and
\* no returned number is the number of the manifest file.
C5_FileNumbersNeverShared ==
  /\ ~reissued
  /\ manifestFileNumber \notin handedOut

\* C6: when a step of logAndApply has failed, the current version, logNumber
\* and prevLogNumber are what they were before the call, the MANIFEST the
\* call opened is gone, and CURRENT is as it was before the call.
C6_FailureLeavesNoTrace ==
  lastOutcome = "failed" =>
    /\ current = pre.current
    /\ logNumber = pre.logNumber
    /\ prevLogNumber = pre.prevLogNumber
    /\ manifestFileNumber \notin DOMAIN manifests
    /\ currentFile = pre.currentFile

\* C7: at every step CURRENT, when it exists, holds one complete manifest
\* name followed by the newline.
C7_CurrentNeverPartial ==
  currentFile.exists =>
    /\ Len(currentFile.content) = 2
    /\ currentFile.content[2] = Newline

\* C8: a version that logAndApply made current has the record of its edit in
\* the MANIFEST that CURRENT names.
C8_CurrentEditInNamedManifest ==
  currentRecord # NoRecord =>
    /\ CurrentReadable
    /\ currentRecord \in Range(manifests[currentFile.content[1]])

\* C9: the set addLiveFiles fills holds every file number of the current
\* version and every file number of the input version of a compaction whose
\* inputs are not released.
C9_LiveFilesCoverInputs ==
  /\ FileNumbers(versions[current].files) \subseteq AddLiveFiles(versions)
  /\ compaction.phase \in {"picked", "installed"} =>
       FileNumbers(compaction.inputFiles) \subseteq AddLiveFiles(versions)

\* A compaction holds an input version that is no longer current and has a
\* file the current version does not have.
C9_Witness ==
  /\ compaction.phase = "installed"
  /\ compaction.inputVersion # current
  /\ FileNumbers(compaction.inputFiles) \ FileNumbers(versions[current].files) # {}

NamedEdits ==
  LET records == manifests[currentFile.content[1]]
  IN  {VersionEditDecode(records[i]) : i \in 1..Len(records)}

\* No edit of the MANIFEST carries a next file number, or none a log number,
\* or none a last sequence.
FieldMissing ==
  \/ \A e \in NamedEdits : ~e.hasNextFileNumber
  \/ \A e \in NamedEdits : ~e.hasLogNumber
  \/ \A e \in NamedEdits : ~e.hasLastSequence

\* CURRENT is there and does not end with a newline.
NoNewline ==
  /\ currentFile.exists
  /\ (currentFile.content = <<>> \/ currentFile.content[Len(currentFile.content)] # Newline)

\* C11: when CURRENT does not end with a newline, or the edits of the MANIFEST
\* it names lack the next file number, the log number or the last sequence,
\* recover fails, the current version stays the constructed empty one and
\* nextFileNumber, lastSequence and logNumber are what they were.
C11_RecoverRejectsIncomplete ==
  [][(lastOutcome = "constructed" /\ lastOutcome' # "constructed"
        /\ (NoNewline \/ (CurrentReadable /\ FieldMissing))) =>
       /\ lastOutcome' = "recoverFailed"
       /\ versions' = versions
       /\ current' = current
       /\ nextFileNumber' = nextFileNumber
       /\ lastSequence' = lastSequence
       /\ logNumber' = logNumber]_vars

\* recover failed on a MANIFEST with a next file number and a log number but
\* no last sequence, on a VersionSet that had handed out file numbers.
C11_Witness ==
  /\ lastOutcome = "recoverFailed"
  /\ CurrentReadable
  /\ \E e \in NamedEdits : e.hasNextFileNumber
  /\ \E e \in NamedEdits : e.hasLogNumber
  /\ \A e \in NamedEdits : ~e.hasLastSequence
  /\ nextFileNumber > 2

\* A record written by writeSnapshot: it carries the comparator name.
IsSnapshotRecord(record) == \E f \in Range(record) : f.tag = 1

\* C12: once a logAndApply has succeeded, every MANIFEST has a snapshot as
\* its first record only: the later records are the edits of the calls, one
\* for each.
C12_OnlyFirstRecordIsSnapshot ==
  lastOutcome = "installed" =>
    \A n \in DOMAIN manifests :
      \A i \in 2..Len(manifests[n]) : ~IsSnapshotRecord(manifests[n][i])

\* The order of two numbers: -1, 0 or 1.
NumberOrder(a, b) == IF a < b THEN -1 ELSE IF a > b THEN 1 ELSE 0

\* The order the internal keys are meant to have: ascending user key, then
\* descending sequence number, then descending type.
InternalKeyOrder(key1, key2) ==
  IF BytewiseCompare(key1.userKey, key2.userKey) # 0
  THEN BytewiseCompare(key1.userKey, key2.userKey)
  ELSE IF key1.sequence # key2.sequence THEN NumberOrder(key2.sequence, key1.sequence)
  ELSE NumberOrder(key2.type, key1.type)

\* C13: compare returns the order of its two internal keys by ascending user
\* key, then descending sequence number, then descending type, which makes it
\* a total order (0 for equal keys only).
C13_CompareIsInternalKeyOrder ==
  fnOutput # <<>> => fnOutput[1] = InternalKeyOrder(fnInput.key1, fnInput.key2)

\* C14: parseInternalKey of new InternalKey(userKey, sn, type) succeeds and
\* returns the user key, the sequence number and the type it was made of, for
\* sequence numbers up to 2^56 - 1.
C14_InternalKeyRoundTrip ==
  fnOutput # <<>> =>
    fnOutput[1] = [ok |-> TRUE, userKey |-> fnInput.userKey, sn |-> fnInput.sn,
                   valueType |-> fnInput.type]

\* The key of the largest sequence number, 2^56 - 1, was parsed.
C14_Witness ==
  /\ fnOutput # <<>>
  /\ fnInput.sn = [hi |-> 2 ^ 28 - 1, lo |-> 2 ^ 28 - 1]
  /\ fnInput.type = kTypeValue
  /\ fnInput.userKey = <<97, 98>>
  /\ fnOutput[1].ok

\* C15: the Bloom filter has no false negatives: after putKeys(keys, n),
\* keyMayMatch is true for each of the keys.
C15_NoFalseNegatives ==
  (fnOutput # <<>> /\ fnInput.probe \in Range(fnInput.keys)) => fnOutput[1].match

\* C16: keyMayMatch returns true for every key when the filter encodes a k
\* above 30.
C16_LargeKAlwaysMatches ==
  (fnOutput # <<>> /\ fnOutput[1].filter.kByte > 30) => fnOutput[1].match

\* Side conditions used to read the two results above.
BloomProbesInRange ==
  \A key \in Range(fnInput.keys) :
    \A position \in BloomPositions(fnInput.hashOf[key], BloomDelta(fnInput.hashOf[key]), 72, 7) :
      position >= 0
BloomNoFalseNegativesInRange ==
  (fnOutput # <<>> /\ fnInput.probe \in Range(fnInput.keys) /\ fnInput.bitsPerKey = 10
     /\ Len(fnInput.keys) = 1 /\ BloomProbesInRange) => fnOutput[1].match

\* C17: for records added in strictly increasing internal-key order, building
\* the table and iterating it with entryIterator() yields the records in the
\* order added, and entryIterator(true) yields them in the reverse order.
C17_TableRoundTrip ==
  fnOutput # <<>> =>
    /\ fnOutput[1].ok
    /\ fnOutput[1].forward = fnInput
    /\ fnOutput[1].backward = Reverse(fnInput)

\* A table of two blocks, the first with a restart, was built and iterated.
C17_Witness ==
  /\ fnOutput # <<>>
  /\ Len(fnInput) = MaxTableRecords
  /\ fnOutput[1].blocks = 2
  /\ fnInput[1].value # fnInput[2].value

\* C18: once a MemTable has been marked immutable the flag is never cleared
\* and a later add leaves its entries and its size unchanged.
C18_ImmutableIsReadOnly ==
  [][memImmutable => (memImmutable' /\ memList' = memList /\ memSize' = memSize)]_vars

\* The first half of C18 on its own: the flag is never cleared.
ImmutableNeverCleared == [][memImmutable => memImmutable']_vars

RECURSIVE VarintLength(_)
VarintLength(n) == IF n < 128 THEN 1 ELSE 1 + VarintLength(n \div 128)

EntryLength(e) ==
  VarintLength(Len(e.key) + 8) + Len(e.key) + 8 + VarintLength(Len(e.value)) + Len(e.value)

RECURSIVE SumOfLengths(_)
SumOfLengths(entries) ==
  IF entries = {} THEN 0
  ELSE LET e == CHOOSE x \in entries : TRUE
       IN  EntryLength(e) + SumOfLengths(entries \ {e})

\* C19: after any adds, MemTable.size is the sum over the added entries of
\* varint_len(keylen + 8) + keylen + 8 + varint_len(valuelen) + valuelen, and
\* the length assertion of add has not failed.
C19_SizeIsSumOfEncodedLengths ==
  /\ memSize = SumOfLengths(memAdded)
  /\ ~memThrown

\* A deletion without a value, and a value whose length takes two varint
\* bytes, have been added.
C19_Witness ==
  /\ Cardinality(memAdded) = MaxMemEntries
  /\ \E e \in memAdded : e.valueType = kTypeDeletion /\ e.value = <<>>
  /\ \E e \in memAdded : e.valueType = kTypeValue /\ Len(e.value) >= 128
  /\ \E e \in memAdded : e.valueType = kTypeValue /\ e.value = <<>>
  /\ memSize > 0

\* The decimal digits of the number, with zeros in front up to 6 digits.
ZeroPadded(number) ==
  LET digits == NumberString(number)
  IN  IF Len(digits) >= 6 THEN digits
      ELSE [i \in 1..(6 - Len(digits)) |-> "0"] \o digits

\* The part of a produced name that carries the number.
NumberPart(type, name) ==
  IF type = "kDescriptorFile" THEN SubSeq(name, Len(ManifestPrefix) + 1, Len(name))
  ELSE BeforeDot(name)

FilenameParsesBack ==
  fnOutput # <<>> =>
    fnOutput[1].parsed = [isInternalFile |-> TRUE, number |-> fnInput.number, type |-> fnInput.type]

FilenameIsPadded ==
  fnOutput # <<>> => NumberPart(fnInput.type, fnOutput[1].name) = ZeroPadded(fnInput.number)

\* C20: for every file number n >= 1 the names of getLogFilename,
\* getTableFilename, getManifestFilename and getTempFilename carry n
\* zero-padded to 6 digits (longer above 999999), and parseFilename of the
\* name returns n with the matching type.
C20_FilenameRoundTrip == FilenameIsPadded /\ FilenameParsesBack

\* The same with the temp file's name left out of the padding.
FilenamePaddedButTemp ==
  (fnOutput # <<>> /\ fnInput.type # "kTempFile") =>
     NumberPart(fnInput.type, fnOutput[1].name) = ZeroPadded(fnInput.number)

\* The references a version has; none when the object is gone.
RefsOf(vers, id) == IF id \in DOMAIN vers THEN vers[id].refs ELSE 0

\* The references that are held: one by the version set on its current
\* version, one by a compaction on its input version.
HeldRefs(id) ==
  (IF id = current THEN 1 ELSE 0) + (IF compaction.inputVersion = id THEN 1 ELSE 0)

\* C21: a compaction returned by pickCompaction or compactRange holds one
\* reference to the version it read: creating it raises that version's count
\* by one, the first releaseInputs lowers it by one, a later releaseInputs
\* changes nothing.
C21_CompactionHoldsOneReference ==
  [][/\ \A id \in (DOMAIN versions) \ {0} : versions[id].refs = HeldRefs(id)
     /\ (compaction.phase = "none" /\ compaction'.phase = "picked") =>
          /\ compaction'.inputVersion = current
          /\ RefsOf(versions', current) = RefsOf(versions, current) + 1
     /\ (compaction'.releases = 1 /\ compaction.releases = 0) =>
          RefsOf(versions', compaction.inputVersion) = RefsOf(versions, compaction.inputVersion) - 1
     /\ (compaction'.releases > 1 /\ compaction.releases = compaction'.releases - 1) =>
          versions' = versions]_vars

\* releaseInputs was called twice on a compaction whose input version was
\* no longer current, so that the first call let the version go.
C21_Witness ==
  /\ compaction.phase = "released"
  /\ compaction.releases = 2
  /\ ~dbDone.moved
  /\ Cardinality(DOMAIN versions) = 2

\* The score of a level as the claim states it: level-0 files over 4, bytes
\* of the level over what the level may hold.
ClaimedScore(files, level) ==
  IF level = 0 THEN [num |-> Len(files[0]), den |-> 4]
  ELSE [num |-> GetTotalBytes(files[level]), den |-> MaxBytesForLevel(level)]

SameScore(a, b) == ~ScoreGreater(a, b) /\ ~ScoreGreater(b, a)

C23_CompactionLevelBelowLast ==
  fnOutput # <<>> =>
    /\ fnOutput[1].compactionLevel \in 0..(kNumLevels - 2)
    /\ fnOutput[1].branch # "assert"

\* Every version of the compaction specification is one saveTo accepts.
PickVersionsValid == SaveToValid(PickVersionFiles(fnInput))

\* The seed the specification names: the first file of the level, in level
\* order, whose largest key is greater than the pointer; the first file of
\* the level when no file is, or when the pointer is unset or empty.
ClaimedSeed(levelFiles, pointer) ==
  LET greater == {i \in 1..Len(levelFiles) :
                    InternalKeyCompare(levelFiles[i].largest, pointer) > 0}
  IN  IF pointer = NoKey \/ greater = {} THEN levelFiles[1]
      ELSE levelFiles[CHOOSE i \in greater : \A j \in greater : i <= j]

PickedBy(branches) ==
  /\ fnOutput # <<>>
  /\ fnOutput[1].branch \in branches

\* C24: a size-triggered pickCompaction at level L starts from the first
\* file of level L whose largest key is greater than compactPointers[L], or
\* from the first file of the level when there is none or the pointer is
\* unset; a version whose score is at least 1 is never compacted for its
\* seeks; and pickCompaction returns nothing exactly when needsCompaction()
\* is false.
C24_PickCompactionSeed ==
  PickedBy({"size", "seek", "none", "assert"}) =>
    LET files == PickVersionFiles(fnInput)
        best == Finalize(files)
        out == fnOutput[1]
    IN  /\ out.branch = "size" =>
             /\ out.level = best.level
             /\ out.seed = ClaimedSeed(files[out.level], fnInput.pointer)
             /\ \E i \in 1..Len(out.c.inputs[1]) : out.c.inputs[1][i] = out.seed
        /\ best.score.num >= best.score.den => out.branch # "seek"
        /\ out.branch = "seek" => FileToCompact(fnInput)
        /\ out.branch = "none" <=> ~NeedsCompaction(best.score, FileToCompact(fnInput))

\* A size-triggered pick that skips the first file of its level although the
\* version has a file to compact for its seeks.
C24_Witness ==
  /\ PickedBy({"size"})
  /\ FileToCompact(fnInput)
  /\ fnOutput[1].seed # PickVersionFiles(fnInput)[fnOutput[1].level][1]

\* The files of the level that overlap the range compactRange was given.
RangeOverlapping ==
  GetOverlappingInputs(PickVersionFiles(fnInput), fnOutput[1].level,
                       AppendInternalKey(<<fnOutput[1].range[1]>>, 0, kTypeDeletion),
                       AppendInternalKey(<<fnOutput[1].range[2]>>, 0, kTypeDeletion))

\* C25 as stated: at a level above 0 the files compactRange starts from
\* total at most maxFileSize bytes.
C25_RangeTotalCapped ==
  (PickedBy({"range"}) /\ fnOutput[1].level > 0) =>
    GetTotalBytes(fnOutput[1].given) <= MaxFileSize

\* C25, amended: at a level above 0 compactRange starts from the shortest
\* run of the overlapping files, in level order, whose sizes add up to
\* maxFileSize or more, and from all of them when they never do: without
\* its last file the selection is below maxFileSize.
C25_RangeCutWhenLimitReached ==
  (PickedBy({"range"}) /\ fnOutput[1].level > 0) =>
    LET given == fnOutput[1].given
        n == Len(given)
    IN  /\ n >= 1
        /\ \A i \in 1..n : given[i] = RangeOverlapping[i]
        /\ GetTotalBytes(SubSeq(given, 1, n - 1)) < MaxFileSize
        /\ n < Len(RangeOverlapping) => GetTotalBytes(given) >= MaxFileSize

\* A range cut after its second file, with more than maxFileSize selected.
C25_Witness ==
  /\ PickedBy({"range"})
  /\ fnOutput[1].level > 0
  /\ Len(fnOutput[1].given) = 2
  /\ Len(RangeOverlapping) > 2
  /\ GetTotalBytes(fnOutput[1].given) > MaxFileSize

PickFrom == {"size", "seek", "range"}

NoFileTwice(files) ==
  \A i, j \in 1..Len(files) : files[i].number = files[j].number => i = j

\* The files of the level outside the inputs that start after the largest
\* key of the inputs with its user key.
LeftBehind(levelFiles, inputs) ==
  {f \in Range(levelFiles) \ Range(inputs) :
     /\ InternalKeyCompare(f.smallest, GetRange(inputs).largest) > 0
     /\ ExtractUserKey(f.smallest) = ExtractUserKey(GetRange(inputs).largest)}

\* C26: addBoundaryInputs comes to an end and adds no file twice, and after
\* setupOtherInputs no file of the level outside inputs[0] starts after the
\* largest key of inputs[0] with the user key of that key.
C26_InputsClosedUnderBoundary ==
  PickedBy(PickFrom) =>
    LET levelFiles == PickVersionFiles(fnInput)[fnOutput[1].level]
        first == AddBoundaryInputs(levelFiles, fnOutput[1].given)
    IN  /\ NoFileTwice(first)
        /\ SubSeq(first, 1, Len(fnOutput[1].given)) = fnOutput[1].given
        /\ Range(first) \subseteq Range(levelFiles)
        /\ NoFileTwice(fnOutput[1].c.inputs[1])
        /\ LeftBehind(levelFiles, fnOutput[1].c.inputs[1]) = {}

\* A compaction whose first file had two boundary files, one after the
\* other, pulled in.
C26_Witness ==
  /\ PickedBy(PickFrom)
  /\ Len(fnOutput[1].given) = 1
  /\ LeftBehind(PickVersionFiles(fnInput)[fnOutput[1].level], fnOutput[1].given) # {}
  /\ Len(AddBoundaryInputs(PickVersionFiles(fnInput)[fnOutput[1].level], fnOutput[1].given)) = 3

\* inputs[0] and inputs[1] as setupOtherInputs first computes them: the
\* files given with their boundary files, and the files of the next level
\* that overlap their range.
FirstInputs0 ==
  AddBoundaryInputs(PickVersionFiles(fnInput)[fnOutput[1].level], fnOutput[1].given)

FirstInputs1 ==
  GetOverlappingInputs(PickVersionFiles(fnInput), fnOutput[1].level + 1,
                       GetRange(FirstInputs0).smallest, GetRange(FirstInputs0).largest)

\* The files of the next level that overlap the range of inputs[0] as
\* setupOtherInputs leaves it.
OverlappingParents ==
  GetOverlappingInputs(PickVersionFiles(fnInput), fnOutput[1].level + 1,
                       GetRange(fnOutput[1].c.inputs[1]).smallest,
                       GetRange(fnOutput[1].c.inputs[1]).largest)

Expanded == fnOutput[1].c.inputs[1] # FirstInputs0

\* C27: setupOtherInputs puts a wider list of files of the level in
\* inputs[0] only when the files of the next level that overlap it are the
\* ones first computed and the wider list and those files total less than
\* 25 x maxFileSize; otherwise inputs[0] and inputs[1] are as first computed.
C27_ExpansionKeepsParents ==
  PickedBy(PickFrom) =>
    LET c == fnOutput[1].c
    IN  IF Expanded
          THEN /\ Range(FirstInputs0) \subseteq Range(c.inputs[1])
               /\ Len(c.inputs[1]) > Len(FirstInputs0)
               /\ Range(OverlappingParents) = Range(FirstInputs1)
               /\ c.inputs[2] = OverlappingParents
               /\ GetTotalBytes(c.inputs[1]) + GetTotalBytes(c.inputs[2])
                    < ExpandedCompactionByteSizeLimit
          ELSE /\ c.inputs[1] = FirstInputs0
               /\ c.inputs[2] = FirstInputs1

\* A compaction with files of the next level whose inputs[0] grew.
C27_Witness ==
  /\ PickedBy(PickFrom)
  /\ Expanded
  /\ fnOutput[1].c.inputs[2] # <<>>

\* C28: isTrivialMove() is true exactly when inputs[0] is one file,
\* inputs[1] is empty and the grandparents total at most 10 x maxFileSize.
C28_TrivialMoveExactly ==
  (PickedBy(PickFrom) /\ fnOutput[1].trivial.asked) =>
    /\ ~fnOutput[1].trivial.threw
    /\ fnOutput[1].trivial.result <=>
         /\ Len(fnOutput[1].c.inputs[1]) = 1
         /\ Len(fnOutput[1].c.inputs[2]) = 0
         /\ GetTotalBytes(fnOutput[1].c.grandparents) <= MaxGrandParentOverlapBytes

\* C29: a compaction at any of the levels 0..5 has its grandparents set,
\* to the empty list at level 5, and isTrivialMove and shouldStopBefore
\* give a result.
C29_GrandparentsAlwaysSet ==
  PickedBy(PickFrom) =>
    /\ fnOutput[1].c.hasGrandparents
    /\ fnOutput[1].level + 2 >= kNumLevels => fnOutput[1].c.grandparents = <<>>
    /\ ~fnOutput[1].trivial.threw
    /\ ~fnOutput[1].stop.threw

\* The grandparents whose largest key is before the key.
PassedBy(grandparents, key) ==
  {i \in 1..Len(grandparents) : InternalKeyCompare(key, grandparents[i].largest) > 0}

RECURSIVE SizesOf(_, _)
SizesOf(grandparents, passed) ==
  IF passed = {} THEN 0
  ELSE LET i == CHOOSE j \in passed : TRUE
       IN  grandparents[i].fileSize + SizesOf(grandparents, passed \ {i})

\* The key of the last call before call n that returned true, and the first
\* key of the run when there is none.
CountedFrom(calls, n) ==
  LET stops == {t \in 1..(n - 1) : calls[t].stop}
  IN  IF stops = {} THEN calls[1].key
      ELSE calls[CHOOSE t \in stops : \A u \in stops : u <= t].key

\* The sizes of the grandparents passed by the key of call n and not by the
\* key counting starts from.
PassedSince(grandparents, calls, n) ==
  SizesOf(grandparents,
          PassedBy(grandparents, calls[n].key) \ PassedBy(grandparents, CountedFrom(calls, n)))

\* C30: over a run of shouldStopBefore calls with increasing keys, a call
\* returns true exactly when the grandparents passed since the last true
\* result, those passed before the first key left out, total more than
\* 10 x maxFileSize; the counter is then zero; the first call does not
\* return true; the grandparent index never goes down nor beyond the
\* number of grandparents.
C30_StopWhenOverlapExceeds ==
  LET grandparents == StopCompaction(fnInput).grandparents
      calls == fnOutput.calls
  IN  \A n \in 1..Len(calls) :
        /\ calls[n].stop <=>
             PassedSince(grandparents, calls, n) > MaxGrandParentOverlapBytes
        /\ calls[n].stop => calls[n].state.overlappedBytes = 0
        /\ ~calls[n].stop => calls[n].state.overlappedBytes = PassedSince(grandparents, calls, n)
        /\ n = 1 => ~calls[n].stop
        /\ calls[n].state.grandparentIndex <= Len(grandparents)
        /\ n > 1 => calls[n].state.grandparentIndex >= calls[n - 1].state.grandparentIndex

\* A run in which two calls returned true, after a first call that passed
\* more than 10 x maxFileSize of grandparents without returning true.
C30_Witness ==
  /\ Len(fnOutput.calls) >= 3
  /\ Cardinality({n \in 1..Len(fnOutput.calls) : fnOutput.calls[n].stop}) = 2
  /\ SizesOf(StopCompaction(fnInput).grandparents,
             PassedBy(StopCompaction(fnInput).grandparents, fnOutput.calls[1].key))
       > MaxGrandParentOverlapBytes

\* Some file at level + 2 or deeper holds the user key in its range.
HeldDeeper(vfiles, level, userKey) ==
  \E l \in Levels : l >= level + 2 /\
    \E i \in 1..Len(vfiles[l]) :
      /\ BytewiseCompare(ExtractUserKey(vfiles[l][i].smallest), userKey) <= 0
      /\ BytewiseCompare(userKey, ExtractUserKey(vfiles[l][i].largest)) <= 0

\* C31: over a run of isBaseLevelForKey calls with user keys that do not
\* decrease, on a version whose levels are sorted and disjoint, a call
\* returns false exactly when a file at level + 2 or deeper has the key
\* between its smallest and largest user key; the pointers of the levels
\* never go down.
C31_BaseLevelExactly ==
  \A n \in 1..Len(fnOutput.calls) :
    /\ fnOutput.calls[n].result <=>
         ~HeldDeeper(BaseVersionFiles(fnInput), fnInput.level, fnOutput.calls[n].userKey)
    /\ \A l \in Levels :
         /\ fnOutput.calls[n].levelPtrs[l] <= Len(BaseVersionFiles(fnInput)[l])
         /\ n > 1 => fnOutput.calls[n].levelPtrs[l] >= fnOutput.calls[n - 1].levelPtrs[l]

\* A run that is answered false, true and false while a pointer moves on.
C31_Witness ==
  /\ Len(fnOutput.calls) = 3
  /\ ~fnOutput.calls[1].result
  /\ fnOutput.calls[2].result
  /\ ~fnOutput.calls[3].result
  /\ \E l \in Levels : fnOutput.calls[3].levelPtrs[l] > fnOutput.calls[1].levelPtrs[l]

\* The deletions an edit should hold for a list of files of a level.
DeletionsOf(level, files) == {[level |-> level, number |-> files[i].number] : i \in 1..Len(files)}

\* C32: addInputDeletions records in the edit one deletion for each file of
\* inputs[0] at the level and each file of inputs[1] at the level below,
\* each once, and nothing else.
C32_InputDeletionsExactly ==
  (PickedBy(PickFrom) /\ fnOutput[1].deleted.asked) =>
    LET c == fnOutput[1].c
        edit == fnOutput[1].deleted.edit
    IN  /\ Range(edit.deletedFiles) =
             DeletionsOf(c.level, c.inputs[1]) \cup DeletionsOf(c.level + 1, c.inputs[2])
        /\ Len(edit.deletedFiles) = Len(c.inputs[1]) + Len(c.inputs[2])
        /\ [edit EXCEPT !.deletedFiles = <<>>] = c.edit

\* Deletions recorded for a compaction with two files at its level and two
\* at the level below.
C32_Witness ==
  /\ PickedBy(PickFrom)
  /\ fnOutput[1].deleted.asked
  /\ Len(fnOutput[1].c.inputs[1]) >= 2
  /\ Len(fnOutput[1].c.inputs[2]) = 2
  /\ Len(fnOutput[1].deleted.edit.deletedFiles) >= 4

\* The largest key of the files an edit adds.
LargestOutputKey(edit) ==
  (CHOOSE a \in Range(edit.newFiles) : \A b \in Range(edit.newFiles) :
     InternalKeyCompare(a.file.largest, b.file.largest) >= 0).file.largest

\* C33 as stated: once a compaction at level L is installed the pointer of
\* level L is the largest key of its outputs, and a compaction that failed
\* has left the pointer as it was before.
C33_PointerIsLargestOutputKey ==
  /\ (compaction.phase = "installed" /\ compaction.edit.newFiles # <<>>) =>
       compactPointers[compaction.level] = LargestOutputKey(compaction.edit)
  /\ compaction.phase = "failed" =>
       compactPointers[compaction.level] = compaction.pointerBefore

\* C33, amended: setupOtherInputs sets the pointer of level L at once to the
\* largest key of inputs[0] and pushes that key onto the edit of the
\* compaction; the pointer keeps that key when the compaction is installed
\* and when it fails, and the pointers of the other levels are not touched.
C33_PointerIsLargestInputKey ==
  [][/\ compaction'.phase \in {"picked", "installed", "failed"} =>
          /\ compactPointers'[compaction'.level] = FindLargestKey(compaction'.inputs[1])
          /\ \E i \in 1..Len(compaction'.edit.compactPointers) :
               compaction'.edit.compactPointers[i] =
                 [level |-> compaction'.level,
                  internalKey |-> FindLargestKey(compaction'.inputs[1])]
     /\ \A l \in Levels :
          compactPointers'[l] # compactPointers[l] =>
            /\ compaction.phase = "none"
            /\ compaction'.phase = "picked"
            /\ compaction'.level = l]_vars

\* A merge installed whose largest output key is not the pointer, after a
\* compaction of the same level had failed.
C33_Witness ==
  /\ compaction.phase = "installed"
  /\ compaction.edit.newFiles # <<>>
  /\ ~dbDone.moved
  /\ dbDone.failures = 1
  /\ compactPointers[compaction.level] # LargestOutputKey(compaction.edit)

\* The versions met from a version on by following next, up to the dummy
\* head (id 0), in at most steps steps.
RECURSIVE RingFrom(_, _, _)
RingFrom(vers, id, steps) ==
  IF id = 0 \/ steps = 0 \/ id \notin DOMAIN vers THEN {}
  ELSE {id} \cup RingFrom(vers, vers[id].next, steps - 1)

RingMembers(vers) == RingFrom(vers, vers[0].next, Cardinality(DOMAIN vers))

\* C34: the current version is the one just before the dummy head of the
\* ring and has at least one reference; next and prev of the members agree;
\* the versions in the ring are the ones with a reference.
C34_VersionRing ==
  /\ 0 \in DOMAIN versions
  /\ current # 0
  /\ versions[0].prev = current
  /\ versions[current].next = 0
  /\ versions[current].refs >= 1
  /\ \A id \in DOMAIN versions :
       /\ versions[id].next \in DOMAIN versions
       /\ versions[id].prev \in DOMAIN versions
       /\ versions[versions[id].next].prev = id
       /\ versions[versions[id].prev].next = id
  /\ RingMembers(versions) = (DOMAIN versions) \ {0}
  /\ \A id \in RingMembers(versions) : versions[id].refs > 0
  /\ (compaction.phase # "none" /\ compaction.inputVersion # 0) =>
       compaction.inputVersion \in RingMembers(versions)

\* The ring holds the input version of a compaction and, after it, a
\* version that is current.
C34_Witness ==
  /\ Cardinality(RingMembers(versions)) = 2
  /\ compaction.inputVersion \in RingMembers(versions) \ {current}
  /\ versions[0].next = compaction.inputVersion

\* C35: whatever logAndApply calls failed, a CURRENT that holds a complete
\* manifest name names a MANIFEST that is there.
C35_NamedManifestExists ==
  (/\ currentFile.exists
   /\ Len(currentFile.content) = 2
   /\ currentFile.content[2] = Newline) =>
    currentFile.content[1] \in DOMAIN manifests

\* The version holds what the edit adds and nothing of what it deletes.
EditApplied(vfiles, edit) ==
  /\ \A i \in 1..Len(edit.newFiles) :
       edit.newFiles[i].file \in Range(vfiles[edit.newFiles[i].level])
  /\ \A i \in 1..Len(edit.deletedFiles) :
       \A f \in Range(vfiles[edit.deletedFiles[i].level]) :
         f.number # edit.deletedFiles[i].number

BothSucceeded == \A i \in 1..2 : fnOutput.calls[i].pc = "done"

\* C36: when two logAndApply calls were in flight at the same time and both
\* succeeded, the current version holds the additions and the deletions of
\* both edits.
C36_BothEditsInCurrent ==
  (BothSucceeded /\ \E i \in 1..2 : fnOutput.calls[i].overlapped) =>
    \A i \in 1..2 : EditApplied(fnOutput.current, fnInput[i])

\* Two calls one after the other leave both edits in the current version.
OneAfterTheOther ==
  (BothSucceeded /\ \A i \in 1..2 : ~fnOutput.calls[i].overlapped) =>
    \A i \in 1..2 : EditApplied(fnOutput.current, fnInput[i])

\* C37: after a recover that succeeded, nextFileNumber is greater than the
\* recovered logNumber and the recovered prevLogNumber.
C37_NextFileNumberAboveLogs ==
  lastOutcome = "recovered" =>
    /\ nextFileNumber > logNumber
    /\ nextFileNumber > prevLogNumber

\* The call shortened its key: the first argument is no longer what it was.
Shortened == fnOutput # <<>> /\ fnOutput[1].key # fnInput.start

\* A shortened key sorts at or after start, and before limit when
\* findShortestSeparator made it.
ShortenedInOrder ==
  Shortened =>
    /\ InternalKeyCompare(fnOutput[1].key, fnInput.start) >= 0
    /\ fnOutput[1].fn = "findShortestSeparator" =>
         InternalKeyCompare(fnOutput[1].key, fnInput.limit) < 0

\* C38: parseInternalKey of a key that findShortestSeparator or
\* findShortSuccessor shortened yields the sequence number kMaxSequenceNumber
\* and the type kValueTypeForSeek, and the key sorts at or after start and
\* before limit.
C38_ShortenedKeyTail ==
  Shortened =>
    /\ fnOutput[1].parsed.ok
    /\ fnOutput[1].parsed.sn = kMaxSequenceNumber
    /\ fnOutput[1].parsed.valueType = kValueTypeForSeek
    /\ ShortenedInOrder

\* C39: InternalKeyBuilder.build(sequence, type, key) returns the internal
\* key new InternalKey(key, sequence, type) is: the user key followed by the
\* 8-byte tail of (sequence, type).
C39_BuildIsNewInternalKey ==
  (fnOutput # <<>> /\ fnOutput[1].fn = "build") =>
    /\ fnOutput[1].built = fnOutput[1].made
    /\ fnOutput[1].built = NewInternalKey(fnInput.userKey, fnInput.sn, fnInput.type)

\* C40: the sequence getter of new InternalKey(userKey, s, type) returns s,
\* for every s from 0 to 2^56 - 1.
C40_SequenceGetterReturnsSequence ==
  (fnOutput # <<>> /\ fnOutput[1].fn = "sequence") =>
    fnOutput[1].sequence = fnInput.sn

\* Below 2^32 the getter returns the sequence number.
SequenceBelow32Bits ==
  (fnOutput # <<>> /\ fnOutput[1].fn = "sequence" /\ fnInput.sn.hi < 16) =>
    fnOutput[1].sequence = fnInput.sn

====
